---- MODULE Spec2Model ----
(***************************************************************************)
(* Model of the owl HDMI-CEC command dispatcher (owl/src/cec.rs and        *)
(* owl/src/job.rs): the worker thread that owns the CEC connection, the    *)
(* bounded command channel, the one-shot ready handshake, the cancellation *)
(* token and the per-command debounce map.                                 *)
(*                                                                         *)
(* Time is the monotonic clock (Instant) in milliseconds.                  *)
(***************************************************************************)
EXTENDS Integers, Sequences, FiniteSets, TLC

(***************************************************************************)
(* Bounds of the model.                                                    *)
(***************************************************************************)
MaxSubmits == 3       \* send calls per run of Spec
MaxFlood == 11        \* send calls per run of FloodSpec (fills the channel)
NumCallers == 3       \* tasks that share the Job handle
MaxTime == 3100       \* last instant the clock reaches
MaxSecondary == 2     \* addresses, or occupied slots, of an address set
MaxStride == 1        \* step from one byte of a sampled buffer to the next
MaxMsgLen == 2        \* bytes of a log message before its NUL
MaxOver == 2          \* bytes a sampled string is longer than the largest buffer
MaxOutside == 2       \* how far outside -1..15 the sampled address codes lie

(***************************************************************************)
(* Program constants.                                                      *)
(***************************************************************************)
Capacity == 8         \* mpsc::channel::<Command>(8)
PressWindow == 200    \* Duration::from_millis(200)
FocusWindow == 3000   \* Duration::from_secs(3), in milliseconds
PacketCapacity == 64  \* cec_datapacket.data: [u8; 64]

NoTime == 0 - 1       \* HashMap::get_mut returned None
NoDuration == 0 - 1   \* debounce_duration returned None

\* The instants the clock visits: their differences straddle both debounce
\* windows (100 and 150 below 200, 250 above; 3000 on and 3100 above 3000).
Instants == {0, 100, 250, MaxTime}

Callers == 1..NumCallers

(***************************************************************************)
(* enum Button, enum Command                                               *)
(***************************************************************************)
Button == {"VolumeUp", "VolumeDown", "VolumeMute"}

PowerOn == [kind |-> "PowerOn", button |-> "-"]
PowerOff == [kind |-> "PowerOff", button |-> "-"]
Focus == [kind |-> "Focus", button |-> "-"]
Press(b) == [kind |-> "Press", button |-> b]
Release(b) == [kind |-> "Release", button |-> b]

Command == {PowerOn, PowerOff, Focus} \cup {Press(b) : b \in Button}
             \cup {Release(b) : b \in Button}

\* The commands the callers submit during one run: each run works on one
\* pair of tags, and together the pairs cover every tag.
Workloads ==
    { {Press("VolumeUp"), Press("VolumeDown")},
      {Press("VolumeUp"), Release("VolumeUp")},
      {Press("VolumeUp"), Focus},
      {Press("VolumeUp"), PowerOff},
      {PowerOn, Release("VolumeDown")},
      {Press("VolumeMute"), Release("VolumeMute")} }

\* The floods: the key-repeat flood of a held volume key (debounced), and a
\* flood of a command that is never debounced.
FloodWorkloads == { {Press("VolumeUp")}, {PowerOff} }

NoItem == [cmd |-> PowerOn, seq |-> 0, at |-> NoTime]

\* Mutant: every debounced kind gets the 3 s window.
debounce_duration_3s(cmd) ==
    CASE cmd.kind \in {"Press", "Release", "Focus"} -> FocusWindow
      [] OTHER -> NoDuration

\* Command::debounce_duration
debounce_duration(cmd) ==
    CASE cmd.kind \in {"Press", "Release"} -> PressWindow
      [] cmd.kind = "Focus" -> FocusWindow
      [] OTHER -> NoDuration

\* Mutant: the map is keyed by the kind alone, the button is ignored.
map_key_kind(cmd) ==
    IF cmd.kind \in {"Press", "Release"}
    THEN [cmd EXCEPT !.button = "VolumeUp"]
    ELSE cmd

\* The key under which the HashMap<Command, Instant> files a command:
\* derive(Hash, Eq) on Command compares the variant and its button.
map_key(cmd) == cmd

\* Mutant: the window excludes its end point.
within_strict(delta, duration) == delta < duration

\* The comparison of debounce_cmd: delta <= duration.
within(delta, duration) == delta <= duration

\* Mutant: a suppressed command restarts the window too.
debounce_cmd_sliding(cmd, time_by_cmd, time) ==
    LET last_time == time_by_cmd[cmd]
        duration == debounce_duration(cmd)
        map == [time_by_cmd EXCEPT ![cmd] = time]
    IN  IF last_time # NoTime /\ duration # NoDuration
                              /\ time - last_time <= duration
        THEN [ret |-> FALSE, map |-> map]
        ELSE [ret |-> TRUE, map |-> map]

\* debounce_cmd(cmd, time_by_cmd) with time = Instant::now().
\* ret is TRUE for Some(cmd), FALSE for None; map is the HashMap afterwards.
debounce_cmd(cmd, time_by_cmd, time) ==
    LET k == map_key(cmd)
        last_time == time_by_cmd[k]
    IN  IF last_time # NoTime
        THEN LET delta == time - last_time
                 duration == debounce_duration(cmd)
             IN  IF duration # NoDuration /\ within(delta, duration)
                 THEN [ret |-> FALSE, map |-> time_by_cmd]
                 ELSE [ret |-> TRUE, map |-> [time_by_cmd EXCEPT ![k] = time]]
        ELSE [ret |-> TRUE, map |-> [time_by_cmd EXCEPT ![k] = time]]

\* Mutant: both volume keys press the same key code.
native_call_one_key(cmd) ==
    CASE cmd.kind \in {"PowerOn", "Focus"} -> "set_active_source"
      [] cmd.kind = "PowerOff" -> "send_standby_devices"
      [] cmd \in {Press("VolumeUp"), Press("VolumeDown")} -> "send_keypress(VolumeUp)"
      [] cmd = Press("VolumeMute") -> "audio_toggle_mute"
      [] cmd \in {Release("VolumeUp"), Release("VolumeDown")} -> "send_key_release"
      [] OTHER -> "none"

\* The native call handle_cmd issues for an accepted command.
native_call(cmd) ==
    CASE cmd.kind \in {"PowerOn", "Focus"} -> "set_active_source"
      [] cmd.kind = "PowerOff" -> "send_standby_devices"
      [] cmd = Press("VolumeUp") -> "send_keypress(VolumeUp)"
      [] cmd = Press("VolumeDown") -> "send_keypress(VolumeDown)"
      [] cmd = Press("VolumeMute") -> "audio_toggle_mute"
      [] cmd \in {Release("VolumeUp"), Release("VolumeDown")} -> "send_key_release"
      [] OTHER -> "none"

VARIABLES
    now,            \* Instant::now(), ms
    run_token,      \* CancellationToken: TRUE once cancelled
    ready,          \* the oneshot channel: "empty", "Ok", "Err", "dropped"
    spawn_pc,       \* Job::spawn in the caller: "await", then its result:
                    \* "handle", "err_start" or "err_read"
    worker_pc,      \* position of the worker thread
    cec,            \* result of Cec::new: "none", "Ok", "Err"
    cmd_chan,       \* the mpsc channel's buffer, oldest first
    waiters,        \* suspended send calls, oldest first
    last_cmd,       \* LastCmd: Command -> Instant (NoTime: no entry)
    cur,            \* the command handle_cmd is executing
    stats,          \* counters of what has happened (history)
    acc,            \* per tag: when its last accepted command was submitted (at)
                    \* and when it was accepted (time)
    last_ev,        \* what the current loop iteration did with the channel
    iter,           \* per iteration: dequeues, native calls and the native
                    \* call issued
    workload,       \* the tags the callers submit in this run
    codec           \* the conversion under way in cec/src/convert.rs: its
                    \* arguments, what it built and what it returned

vars == <<now, run_token, ready, spawn_pc, worker_pc, cec, cmd_chan, waiters,
          last_cmd, cur, stats, acc, last_ev, iter, workload, codec>>

Exited == {"ret_ok", "ret_err", "panicked"}

\* cmd_rx is owned by the thread's closure: it is dropped when the thread ends.
rx_closed == worker_pc \in Exited

NoAcc == [at |-> NoTime, time |-> NoTime]

\* kind: "none", "empty", "accepted" or "suppressed"; item: the command taken
\* from the channel; time: Instant::now() in debounce_cmd; before: the tag's
\* entry in the map before the call; prev: the tag's last acceptance before.
NoEv == [kind |-> "none", item |-> NoItem, time |-> NoTime, before |-> NoTime,
         prev |-> NoAcc]

InitWith(w) ==
    /\ workload = w
    /\ now = 0
    /\ run_token = FALSE
    /\ ready = "empty"
    /\ spawn_pc = "await"
    /\ worker_pc = "open"
    /\ cec = "none"
    /\ cmd_chan = <<>>
    /\ waiters = <<>>
    /\ last_cmd = [c \in Command |-> NoTime]
    /\ cur = NoItem
    /\ stats = [submitted |-> 0, accepted |-> 0, send_err |-> 0,
                dequeued |-> 0, failed |-> FALSE, last_exec |-> 0,
                ready_sends |-> 0, deq_cancelled |-> 0]
    /\ acc = [c \in Command |-> NoAcc]
    /\ last_ev = NoEv
    /\ iter = [deq |-> 0, calls |-> 0, native |-> "none"]

\* No conversion is under way while the dispatcher runs.
NoCodec == [stage |-> "idle"]

Init == \E w \in Workloads : InitWith(w) /\ codec = NoCodec

FloodInit == \E w \in FloodWorkloads : InitWith(w) /\ codec = NoCodec

(***************************************************************************)
(* The clock.                                                              *)
(***************************************************************************)
Tick ==
    /\ \E t \in Instants : t > now /\ now' = t
    /\ UNCHANGED <<run_token, ready, spawn_pc, worker_pc, cec, cmd_chan,
                   waiters, last_cmd, cur, stats, acc, last_ev, iter, workload,
                   codec>>

(***************************************************************************)
(* CancellationToken::cancel, by whoever holds a clone of the token.       *)
(***************************************************************************)
cancel(token) == TRUE

Cancel ==
    /\ run_token' = cancel(run_token)
    /\ UNCHANGED <<now, ready, spawn_pc, worker_pc, cec, cmd_chan, waiters,
                   last_cmd, cur, stats, acc, last_ev, iter, workload, codec>>

(***************************************************************************)
(* The worker thread: job::send_ready_status(ready_tx, Cec::new)?          *)
(***************************************************************************)
\* func() returns Ok or Err.
WorkerOpen ==
    /\ worker_pc = "open"
    /\ \E r \in {"Ok", "Err"} : cec' = r
    /\ worker_pc' = "send_ready"
    /\ UNCHANGED <<now, run_token, ready, spawn_pc, cmd_chan, waiters,
                   last_cmd, cur, stats, acc, last_ev, iter, workload, codec>>

\* Mutant: the unwinding thread leaks ready_tx, the channel stays open.
unwind_ready_leaked(r) == r

\* The oneshot channel once the unwinding thread has dropped ready_tx.
unwind_ready(r) == "dropped"

\* func() panics: the thread unwinds, ready_tx and cmd_rx are dropped.
WorkerOpenPanic ==
    /\ worker_pc = "open"
    /\ worker_pc' = "panicked"
    /\ ready' = unwind_ready(ready)
    /\ UNCHANGED <<now, run_token, spawn_pc, cec, cmd_chan, waiters,
                   last_cmd, cur, stats, acc, last_ev, iter, workload, codec>>

\* Mutant: the result of send_ready_status is not propagated with `?`.
after_ready_loop(result) == "check"

\* Where the thread goes after ready_tx.send(status): `?` returns the error.
after_ready(result) == IF result = "Ok" THEN "check" ELSE "ret_err"

\* ready_tx.send(status); result?
WorkerSendReady ==
    /\ worker_pc = "send_ready"
    /\ ready' = cec
    /\ stats' = [stats EXCEPT !.ready_sends = @ + 1]
    /\ worker_pc' = after_ready(cec)
    /\ UNCHANGED <<now, run_token, spawn_pc, cec, cmd_chan, waiters,
                   last_cmd, cur, acc, last_ev, iter, workload, codec>>

(***************************************************************************)
(* Job::spawn in the caller: ready_rx.await.context(..)?.context(..)?      *)
(***************************************************************************)
\* Mutant: spawn does not look at the status it received.
spawn_result_any(r) == "handle"

\* Ok(Ok(())): the handle; Ok(Err(e)): "job failed to start", caused by e;
\* Err(RecvError), the sender was dropped: "failed to read job status".
spawn_result(r) ==
    CASE r = "Ok" -> "handle"
      [] r = "Err" -> "err_start"
      [] OTHER -> "err_read"

SpawnResolve ==
    /\ spawn_pc = "await"
    /\ ready # "empty"
    /\ spawn_pc' = spawn_result(ready)
    /\ UNCHANGED <<now, run_token, ready, worker_pc, cec, cmd_chan, waiters,
                   last_cmd, cur, stats, acc, last_ev, iter, workload, codec>>

(***************************************************************************)
(* The worker loop.                                                        *)
(***************************************************************************)
\* Dropping cmd_rx closes the channel: buffered commands are dropped and
\* every suspended send returns Err.
CloseRx ==
    /\ cmd_chan' = <<>>
    /\ waiters' = <<>>

\* Mutant: the loop does not see the token.
is_cancelled_never(token) == FALSE

\* CancellationToken::is_cancelled
is_cancelled(token) == token

\* if run_token.is_cancelled() { break; }  ...  Ok(())
\* Returning drops what the closure owns: cmd_rx and last_cmd.
WorkerCheck ==
    /\ worker_pc = "check"
    /\ last_ev' = NoEv
    /\ iter' = [deq |-> 0, calls |-> 0, native |-> "none"]
    /\ IF is_cancelled(run_token)
       THEN /\ worker_pc' = "ret_ok"
            /\ CloseRx
            /\ stats' = [stats EXCEPT !.send_err = @ + Len(waiters)]
            /\ last_cmd' = [c \in Command |-> NoTime]
            /\ acc' = [c \in Command |-> NoAcc]
       ELSE /\ worker_pc' = "recv"
            /\ UNCHANGED <<cmd_chan, waiters, stats, last_cmd, acc>>
    /\ UNCHANGED <<now, run_token, ready, spawn_pc, cec, cur, workload, codec>>

\* Mutant: the newest command is taken first.
recv_index_last(chan) == Len(chan)

\* The position try_recv takes a command from.
recv_index(chan) == 1

\* Mutant: try_recv empties the buffer and hands out one command.
Remove_drain(s, i) == <<>>

\* The buffer once try_recv has taken the command at position i.
Remove(s, i) == [j \in 1..(Len(s) - 1) |-> IF j < i THEN s[j] ELSE s[j + 1]]

\* Where the thread continues once handle_cmd has returned: it sleeps 1 ms
\* and goes back to the head of the loop.
after_handle == "check"

\* handle_cmd: cmd_rx.try_recv() and debounce_cmd; when nothing is left to
\* execute, handle_cmd returns and the thread sleeps.
WorkerRecv ==
    /\ worker_pc = "recv"
    /\ IF cmd_chan = <<>>
       THEN /\ worker_pc' = after_handle
            /\ last_ev' = [NoEv EXCEPT !.kind = "empty"]
            /\ UNCHANGED <<cmd_chan, last_cmd, cur, stats, acc, iter>>
       ELSE LET i == recv_index(cmd_chan)
                item == cmd_chan[i]
                d == debounce_cmd(item.cmd, last_cmd, now)
                cancelled == IF run_token THEN 1 ELSE 0
            IN  /\ cmd_chan' = Remove(cmd_chan, i)
                /\ last_cmd' = d.map
                /\ iter' = [iter EXCEPT !.deq = @ + 1]
                /\ last_ev' = [kind |-> IF d.ret THEN "accepted" ELSE "suppressed",
                               item |-> item, time |-> now,
                               before |-> last_cmd[item.cmd],
                               prev |-> acc[item.cmd]]
                /\ IF d.ret
                   THEN /\ worker_pc' = "call"
                        /\ cur' = item
                        /\ acc' = [acc EXCEPT ![item.cmd] =
                                               [at |-> item.at, time |-> now]]
                        /\ stats' = [stats EXCEPT !.dequeued = @ + 1,
                                                  !.deq_cancelled = @ + cancelled]
                   ELSE /\ worker_pc' = after_handle
                        /\ stats' = [stats EXCEPT !.dequeued = @ + 1,
                                                  !.deq_cancelled = @ + cancelled]
                        /\ UNCHANGED <<cur, acc>>
    /\ UNCHANGED <<now, run_token, ready, spawn_pc, cec, waiters, workload, codec>>

\* Mutant: the native call's error is propagated with `?` out of the loop.
after_call_fatal(ok) == IF ok THEN "check" ELSE "ret_err"

\* if let Err(e) = result { error!(..) }: the error is logged and dropped,
\* handle_cmd returns () either way.
after_call(ok) == after_handle

\* handle_cmd: the match on cmd; the native call returns, its error, if any,
\* is logged, handle_cmd returns and the thread sleeps.
WorkerCall ==
    /\ worker_pc = "call"
    /\ \E ok \in BOOLEAN :
         LET n == IF native_call(cur.cmd) = "none" THEN 0 ELSE 1
         IN  /\ (n = 0 => ok)
             /\ stats' = [stats EXCEPT !.failed = @ \/ ~ok, !.last_exec = cur.seq]
             /\ iter' = [iter EXCEPT !.calls = @ + n,
                                     !.native = native_call(cur.cmd)]
             /\ worker_pc' = after_call(ok)
    /\ cur' = NoItem
    /\ UNCHANGED <<now, run_token, ready, spawn_pc, cec, cmd_chan, waiters,
                   last_cmd, acc, last_ev, workload, codec>>

(***************************************************************************)
(* Job::send: self.cmd_tx.send(cmd).await?                                 *)
(***************************************************************************)
Busy(c) == \E i \in 1..Len(waiters) : waiters[i].caller = c

\* The channel accepts a command: it is appended to the buffer.
Enqueue(chan, cmd, at, seq) == Append(chan, [cmd |-> cmd, seq |-> seq, at |-> at])

\* Mutant: the channel is unbounded.
has_permit_unbounded(chan, ws) == ws = <<>>

\* A permit is free and no earlier sender is waiting for one.
has_permit(chan, ws) == Len(chan) < Capacity /\ ws = <<>>

\* Mutant: try_send, a full channel rejects the command.
send_outcome_try(closed, permit) == IF closed \/ ~permit THEN "Err" ELSE "Ok"

\* What cmd_tx.send(cmd).await does first: Err(SendError) on a closed
\* channel, the command enqueued when a permit is free, suspension otherwise.
send_outcome(closed, permit) ==
    CASE closed -> "Err"
      [] permit -> "Ok"
      [] OTHER -> "Pending"

SendCmd(c, cmd, limit) ==
    /\ spawn_pc = "handle"
    /\ ~Busy(c)
    /\ stats.submitted < limit
    /\ LET o == send_outcome(rx_closed, has_permit(cmd_chan, waiters))
       IN
       IF o = "Err"
       THEN /\ stats' = [stats EXCEPT !.submitted = @ + 1, !.send_err = @ + 1]
            /\ UNCHANGED <<cmd_chan, waiters>>
       ELSE IF o = "Ok"
       THEN /\ cmd_chan' = Enqueue(cmd_chan, cmd, now, stats.accepted + 1)
            /\ stats' = [stats EXCEPT !.submitted = @ + 1, !.accepted = @ + 1]
            /\ UNCHANGED waiters
       ELSE /\ waiters' = Append(waiters, [caller |-> c, cmd |-> cmd, at |-> now])
            /\ stats' = [stats EXCEPT !.submitted = @ + 1]
            /\ UNCHANGED cmd_chan
    /\ UNCHANGED <<now, run_token, ready, spawn_pc, worker_pc, cec, last_cmd,
                   cur, acc, last_ev, iter, workload, codec>>

\* A suspended send gets the permit the worker released and completes.
SendResume ==
    /\ waiters # <<>>
    /\ ~rx_closed
    /\ Len(cmd_chan) < Capacity
    /\ LET w == Head(waiters)
       IN  cmd_chan' = Enqueue(cmd_chan, w.cmd, w.at, stats.accepted + 1)
    /\ waiters' = Tail(waiters)
    /\ stats' = [stats EXCEPT !.accepted = @ + 1]
    /\ UNCHANGED <<now, run_token, ready, spawn_pc, worker_pc, cec, last_cmd,
                   cur, acc, last_ev, iter, workload, codec>>

Send == \E c \in Callers, cmd \in workload : SendCmd(c, cmd, MaxSubmits)

FloodSend == \E c \in Callers, cmd \in workload : SendCmd(c, cmd, MaxFlood)

Next ==
    \/ Tick
    \/ Cancel
    \/ WorkerOpen
    \/ WorkerOpenPanic
    \/ WorkerSendReady
    \/ SpawnResolve
    \/ WorkerCheck
    \/ WorkerRecv
    \/ WorkerCall
    \/ Send

\* The dispatcher with a running clock and up to MaxSubmits submissions, which
\* never fill the channel: no send is suspended, so SendResume has no step.
Spec == Init /\ [][Next]_vars

\* The same program with the clock standing still while the callers flood
\* the channel with up to MaxFlood submissions: sends are suspended and
\* resumed.
FloodNext ==
    \/ Cancel
    \/ WorkerOpen
    \/ WorkerOpenPanic
    \/ WorkerSendReady
    \/ SpawnResolve
    \/ WorkerCheck
    \/ WorkerRecv
    \/ WorkerCall
    \/ FloodSend
    \/ SendResume

FloodSpec == FloodInit /\ [][FloodNext]_vars

\* The worker is a thread of its own that the scheduler keeps running: every
\* step of its loop that stays possible is eventually taken.  Nothing obliges
\* the callers to send or anybody to cancel.
WorkerStep == WorkerCheck \/ WorkerRecv \/ WorkerCall

FairFloodSpec == FloodSpec /\ WF_vars(WorkerStep)

\* Cec::new returns or panics.
OpenStep == WorkerOpen \/ WorkerOpenPanic

\* The start handshake under its scheduling: opening the connection returns
\* or panics, the thread then goes on to send the status, and the runtime
\* polls the task that awaits ready_rx once the channel has woken it.
FairSpawnSpec ==
    FloodSpec /\ WF_vars(OpenStep) /\ WF_vars(WorkerSendReady)
              /\ WF_vars(SpawnResolve)

(***************************************************************************)
(* Properties of the debounce step.                                        *)
(***************************************************************************)
Dequeued == last_ev.kind \in {"accepted", "suppressed"}

InChannel(item) == \E i \in 1..Len(cmd_chan) : cmd_chan[i].seq = item.seq

\* C1: a dequeued command is suppressed exactly when a command of the same
\* tag was accepted before and no more than the window of its kind has passed
\* since that acceptance: 200 ms for Press and Release, 3 s for Focus, no
\* window for PowerOn and PowerOff. A command whose tag was never accepted is
\* accepted, and a suppressed command is not put back into the channel.
C1_SuppressedExactlyWithinWindow ==
    Dequeued =>
        LET c == last_ev.item.cmd
            since == last_ev.time - last_ev.prev.time
            inWindow ==
                \/ c.kind \in {"Press", "Release"} /\ since <= 200
                \/ c.kind = "Focus" /\ since <= 3000
        IN  /\ (last_ev.kind = "suppressed") <=>
                   (last_ev.prev.time # NoTime /\ inWindow)
            /\ c.kind \in {"PowerOn", "PowerOff"} => last_ev.kind = "accepted"
            /\ last_ev.prev.time = NoTime => last_ev.kind = "accepted"
            /\ last_ev.kind = "suppressed" => ~InChannel(last_ev.item)

\* C1 witness: a Focus is suppressed exactly 3 s after the accepted one.
C1_Witness ==
    /\ last_ev.kind = "suppressed"
    /\ last_ev.item.cmd = Focus
    /\ last_ev.time - last_ev.prev.time = 3000

\* C2: when debounce_cmd suppresses a command the timestamp of its tag stays
\* what it was, when it accepts the command the timestamp becomes the current
\* time; so the timestamp of a tag is always the time of its last accepted
\* command.
C2_TimestampOnlyOnAccept ==
    Dequeued =>
        LET c == last_ev.item.cmd
        IN  /\ last_ev.kind = "suppressed" =>
                   /\ last_cmd[c] = last_ev.before
                   /\ last_cmd[c] = last_ev.prev.time
            /\ last_ev.kind = "accepted" => last_cmd[c] = last_ev.time

\* C2 witness: a suppressed command was dequeued later than the acceptance the
\* timestamp still shows.
C2_Witness ==
    /\ last_ev.kind = "suppressed"
    /\ last_ev.time > last_ev.before
    /\ last_cmd[last_ev.item.cmd] = last_ev.before

\* C3, as stated: for Press(VolumeUp) submitted at 0, 100 ms and 250 ms the
\* second is suppressed and the third accepted, and a press/release command
\* submitted more than 200 ms after the previous accepted identical command
\* was submitted is accepted, for every schedule of the worker.
C3_AcceptedBySubmitTime ==
    (Dequeued /\ last_ev.item.cmd.kind \in {"Press", "Release"}
              /\ last_ev.prev.at # NoTime) =>
        /\ last_ev.item.at - last_ev.prev.at > 200 => last_ev.kind = "accepted"
        /\ (last_ev.item.at = 100 /\ last_ev.prev.at = 0) =>
               last_ev.kind = "suppressed"

\* C3, amended: a press/release command dequeued more than 200 ms after the
\* previous accepted identical command was dequeued is accepted, whatever the
\* submission times; and when both were dequeued at the time they were
\* submitted, the command is suppressed at 100 ms and accepted at 250 ms
\* after the accepted one (accepted exactly when more than 200 ms apart).
C3_AcceptedByDequeueTime ==
    (Dequeued /\ last_ev.item.cmd.kind \in {"Press", "Release"}
              /\ last_ev.prev.time # NoTime) =>
        /\ last_ev.time - last_ev.prev.time > 200 => last_ev.kind = "accepted"
        /\ (last_ev.item.at = last_ev.time /\ last_ev.prev.at = last_ev.prev.time) =>
               ((last_ev.kind = "accepted") <=>
                    (last_ev.item.at - last_ev.prev.at > 200))

\* C3 witness: the third Press(VolumeUp), submitted and dequeued at 250 ms, is
\* accepted; the accepted one before it was submitted and dequeued at 0, so
\* the second one was suppressed.
C3_Witness ==
    /\ last_ev.kind = "accepted"
    /\ last_ev.item.cmd = Press("VolumeUp")
    /\ last_ev.item.seq = 3
    /\ last_ev.item.at = 250 /\ last_ev.time = 250
    /\ last_ev.prev = [at |-> 0, time |-> 0]
    /\ \A c \in Command \ {Press("VolumeUp")} : last_cmd[c] = NoTime

\* C4: timestamps are kept per tag, the button included: the timestamp of a
\* tag is the time of the last accepted command of exactly that tag, handling
\* a command changes no timestamp but that of its own tag, and whether it is
\* suppressed is decided by the timestamp of its own tag alone.
C4_PerTagTimestamps ==
    /\ [](\A c \in Command : last_cmd[c] = acc[c].time)
    /\ [][(worker_pc = "recv" /\ worker_pc' # "recv" /\ cmd_chan # <<>>) =>
             LET c == Head(cmd_chan).cmd
                 d == debounce_duration(c)
             IN  /\ \A o \in Command \ {c} : last_cmd'[o] = last_cmd[o]
                 /\ (last_ev'.kind = "suppressed") <=>
                        (last_cmd[c] # NoTime /\ d # NoDuration
                                             /\ now - last_cmd[c] <= d)]_vars

\* C4 witness: Press(VolumeUp) is accepted for the first time less than 200 ms
\* after Press(VolumeDown) was sent.
C4_Witness ==
    /\ last_ev.kind = "accepted"
    /\ last_ev.item.cmd = Press("VolumeUp")
    /\ last_ev.prev.time = NoTime
    /\ last_cmd[Press("VolumeDown")] # NoTime
    /\ last_ev.time - last_cmd[Press("VolumeDown")] <= 200

(***************************************************************************)
(* Properties of the start handshake, of cancellation and of the channel.  *)
(***************************************************************************)
\* C5: the worker sends the outcome of opening the connection on the ready
\* signal exactly once, one success or one failure, and spawn hands out the
\* handle only after it has received a success.
C5_ReadyOnceThenHandle ==
    /\ stats.ready_sends <= 1
    /\ (ready \in {"Ok", "Err"}) <=> (stats.ready_sends = 1)
    /\ ready \in {"Ok", "Err"} => ready = cec
    /\ worker_pc \in {"check", "recv", "call", "ret_ok", "ret_err"} =>
           stats.ready_sends = 1
    /\ spawn_pc = "handle" => (ready = "Ok" /\ stats.ready_sends = 1)

\* C5 witness: the caller holds the handle and the worker is executing a
\* command submitted through it.
C5_Witness ==
    /\ spawn_pc = "handle"
    /\ ready = "Ok"
    /\ stats.ready_sends = 1
    /\ worker_pc = "call"

\* C6: when opening the connection fails the worker exits without dequeuing
\* or executing a command, spawn resolves to the error that carries the
\* failure, and no handle exists, so no command is ever submitted.
C6_OpenFailureIsTerminal ==
    cec = "Err" =>
        /\ worker_pc \in {"send_ready", "ret_err"}
        /\ stats.dequeued = 0 /\ stats.last_exec = 0 /\ cur = NoItem
        /\ spawn_pc \in {"await", "err_start"}
        /\ stats.submitted = 0 /\ cmd_chan = <<>>
        /\ worker_pc = "ret_err" => ready = "Err"

\* C6 witness: opening failed, the thread has returned the error and spawn
\* has resolved to "job failed to start".
C6_Witness ==
    /\ cec = "Err"
    /\ worker_pc = "ret_err"
    /\ spawn_pc = "err_start"

\* C7, as stated: after the token is cancelled the worker dequeues no
\* further command.
C7_NoDequeueAfterCancel == stats.deq_cancelled = 0

\* C7, amended: after the token is cancelled the worker dequeues at most one
\* more command, in the iteration that had passed its check of the flag; at
\* its next check it returns Ok without dequeuing; a native call in flight
\* runs to its end; an exited worker dequeues nothing; cancelling a cancelled
\* token changes nothing.
C7_StopsAtNextCheck ==
    /\ [](stats.deq_cancelled <= 1)
    /\ [](worker_pc = "ret_ok" => (run_token /\ cur = NoItem))
    /\ [](worker_pc = "ret_err" => cec = "Err")
    /\ [][run_token => run_token']_vars
    /\ [][(run_token /\ worker_pc = "check" /\ worker_pc' # "check") =>
             (worker_pc' = "ret_ok" /\ stats'.dequeued = stats.dequeued)]_vars
    /\ [][(worker_pc = "call" /\ worker_pc' # "call") =>
             (worker_pc' = "check" /\ stats'.last_exec = cur.seq)]_vars
    /\ [][(worker_pc \in Exited) =>
             (worker_pc' = worker_pc /\ stats'.dequeued = stats.dequeued)]_vars

\* C7 witness: a command was dequeued after the cancellation, by the
\* iteration already past its check, and the thread has then returned Ok.
C7_Witness ==
    /\ worker_pc = "ret_ok"
    /\ stats.deq_cancelled = 1

\* C8: commands are executed in the order in which the channel accepted
\* them (seq numbers the acceptances), and one loop iteration dequeues at
\* most one command and issues at most one native call.
C8_FifoOnePerIteration ==
    /\ \A i, j \in 1..Len(cmd_chan) : i < j => cmd_chan[i].seq < cmd_chan[j].seq
    /\ worker_pc = "call" => cur.seq > stats.last_exec
    /\ cmd_chan # <<>> =>
           /\ Head(cmd_chan).seq > stats.last_exec
           /\ worker_pc = "call" => Head(cmd_chan).seq > cur.seq
    /\ iter.deq <= 1
    /\ iter.calls <= 1

\* C8 witness: the second accepted command is being executed after the first
\* one was, while a third one waits in the channel.
C8_Witness ==
    /\ worker_pc = "call"
    /\ cur.seq = 2
    /\ stats.last_exec = 1
    /\ iter.deq = 1
    /\ cmd_chan # <<>>

C10_SendNeverErr == stats.send_err = 0

\* C10, amended: send returns an error only once the worker thread has
\* exited, which closes the channel; while the worker is alive (running, with
\* failing native calls, or cancelled but not yet exited) every send returns
\* Ok or stays suspended, and after the exit nothing is buffered or suspended.
C10_SendErrOnlyAfterExit ==
    /\ stats.send_err > 0 => rx_closed
    /\ rx_closed => (cmd_chan = <<>> /\ waiters = <<>>)
    /\ ~rx_closed => stats.submitted = stats.accepted + Len(waiters)

\* C10 witness: the token is cancelled, a native call has failed, the worker
\* is still alive, and every send has returned Ok.
C10_Witness ==
    /\ run_token
    /\ ~rx_closed
    /\ stats.failed
    /\ stats.send_err = 0
    /\ waiters = <<>>
    /\ stats.submitted > 8
    /\ stats.accepted = stats.submitted

(***************************************************************************)
(* What becomes of the commands the channel accepted.                      *)
(***************************************************************************)
\* C11 as stated: a command the channel accepted is never lost, it is still
\* in the buffer or the worker has dequeued it.
C11_AcceptedNeverLost == stats.accepted = stats.dequeued + Len(cmd_chan)

\* The accepted command with sequence number n has left the buffer through
\* try_recv, or the worker thread has ended.
C11_Served(n) == stats.dequeued >= n \/ rx_closed

\* C11, amended: while the worker thread lives, every accepted command is in
\* the buffer or has been dequeued; a dequeued command that debounce let pass
\* is being executed or has been executed, so debounce alone discards; and an
\* accepted command is eventually dequeued unless the thread ends first (its
\* buffered commands are then dropped with the receiver).
C11_DequeuedUnlessWorkerExits ==
    /\ [](~rx_closed => stats.accepted = stats.dequeued + Len(cmd_chan))
    /\ [](last_ev.kind = "accepted" =>
            \/ worker_pc = "call" /\ cur = last_ev.item
            \/ worker_pc # "call" /\ stats.last_exec = last_ev.item.seq)
    /\ \A n \in 1..(MaxFlood + 1) : (stats.accepted >= n) ~> C11_Served(n)

\* A full buffer has been worked off by a worker that was never cancelled.
C11_Witness ==
    /\ ~run_token
    /\ stats.accepted > Capacity
    /\ stats.dequeued = stats.accepted
    /\ worker_pc = "check"

\* The command this iteration dequeued has been dealt with: handle_cmd has
\* returned.
Handled == Dequeued /\ worker_pc # "call"

\* C12 as stated: every dequeued command that debounce let pass has made
\* exactly one native call, whatever its tag; a suppressed one has made none.
C12_OneCallPerAccepted ==
    Handled => iter.calls = (IF last_ev.kind = "accepted" THEN 1 ELSE 0)

\* The native call of each tag, as the claim lists them: one per tag, except
\* Release of VolumeMute, which has none.
C12_Expected(cmd) ==
    IF cmd = PowerOn THEN "set_active_source"
    ELSE IF cmd = Focus THEN "set_active_source"
    ELSE IF cmd = PowerOff THEN "send_standby_devices"
    ELSE IF cmd = Press("VolumeUp") THEN "send_keypress(VolumeUp)"
    ELSE IF cmd = Press("VolumeDown") THEN "send_keypress(VolumeDown)"
    ELSE IF cmd = Press("VolumeMute") THEN "audio_toggle_mute"
    ELSE IF cmd = Release("VolumeUp") THEN "send_key_release"
    ELSE IF cmd = Release("VolumeDown") THEN "send_key_release"
    ELSE "none"

\* C12, amended: a dequeued command that debounce let pass has made exactly
\* the native call of its tag, once, except Release of VolumeMute, which is
\* accepted and makes no native call; a suppressed command has made none.
C12_OneCallExceptMuteRelease ==
    Handled =>
        IF last_ev.kind = "suppressed"
        THEN iter.calls = 0 /\ iter.native = "none"
        ELSE /\ iter.native = C12_Expected(last_ev.item.cmd)
             /\ iter.calls = (IF last_ev.item.cmd = Release("VolumeMute")
                              THEN 0 ELSE 1)

\* A press of VolumeDown has been executed after an accepted press of
\* VolumeUp.
C12_Witness ==
    /\ Handled
    /\ last_ev.kind = "accepted"
    /\ last_ev.item.cmd = Press("VolumeDown")
    /\ last_ev.item.seq = 2
    /\ iter.calls = 1

(***************************************************************************)
(* Errors of the native calls.                                             *)
(***************************************************************************)
\* C13: a failed native call is only logged.  The thread returns an error
\* only when opening the connection failed, and then no native call was ever
\* made; after a failed native call the thread is still in its loop until it
\* is cancelled; and while it is in its loop no send has returned an error.
C13_NativeFailureOnlyLogged ==
    /\ worker_pc = "ret_err" => cec = "Err" /\ ~stats.failed
    /\ stats.failed =>
         \/ worker_pc \in {"check", "recv", "call"}
         \/ worker_pc = "ret_ok" /\ run_token
    /\ stats.failed /\ ~rx_closed => stats.send_err = 0

\* The first native call failed, nobody cancelled, and the command queued
\* behind it has been dequeued and is being executed.
C13_Witness ==
    /\ stats.failed
    /\ ~run_token
    /\ stats.last_exec = 1
    /\ worker_pc = "call"
    /\ cur.seq = 2

(***************************************************************************)
(* cec/src/types.rs and cec/src/convert.rs: logical addresses.             *)
(***************************************************************************)
\* Option<T>
None == [some |-> FALSE]
Some(v) == [some |-> TRUE, val |-> v]

\* Result<T, Error>
Ok(v) == [ok |-> TRUE, val |-> v]
Err(e) == [ok |-> FALSE, err |-> e]

\* enum LogicalAddress: the variants other than Unknown, in the order of
\* their codes, Tv = 0 up to Unregistered = 15.
LogicalAddressTable ==
    << "Tv", "Recordingdevice1", "Recordingdevice2", "Tuner1",
       "Playbackdevice1", "Audiosystem", "Tuner2", "Tuner3",
       "Playbackdevice2", "Recordingdevice3", "Tuner4", "Playbackdevice3",
       "Reserved1", "Reserved2", "Freeuse", "Unregistered" >>

LogicalAddress == {"Unknown"} \cup {LogicalAddressTable[i] : i \in 1..16}

\* LogicalAddress::repr: the variant's code, Unknown = -1.
LogicalAddress_repr(a) ==
    IF a = "Unknown" THEN 0 - 1
    ELSE (CHOOSE i \in 1..16 : LogicalAddressTable[i] = a) - 1

\* LogicalAddress::from_repr: None for a code that no variant has.
LogicalAddress_from_repr(c) ==
    IF c = 0 - 1 THEN Some("Unknown")
    ELSE IF c \in 0..15 THEN Some(LogicalAddressTable[c + 1])
    ELSE None

\* Mutant: the match ends in a default variant, `_ => LogicalAddress::Unknown`.
LogicalAddress_try_from_default(value) ==
    IF value \in 0..15 THEN Ok(LogicalAddressTable[value + 1])
    ELSE Ok("Unknown")

\* impl TryFrom<c_int> for LogicalAddress: the match on the value.
LogicalAddress_try_from(value) ==
    IF value = 0 - 1 THEN Ok("Unknown")
    ELSE IF value \in 0..15 THEN Ok(LogicalAddressTable[value + 1])
    ELSE Err("InvalidPrimaryAddress")

\* KnownLogicalAddress::new: any address but Unknown.
KnownLogicalAddress_new(a) == IF a = "Unknown" THEN None ELSE Some(a)

\* RegisteredLogicalAddress::new: any address but Unknown and Unregistered.
RegisteredLogicalAddress_new(a) ==
    IF a \in {"Unknown", "Unregistered"} THEN None ELSE Some(a)

KnownLogicalAddress == {a \in LogicalAddress : KnownLogicalAddress_new(a).some}

RegisteredLogicalAddress ==
    {a \in LogicalAddress : RegisteredLogicalAddress_new(a).some}

\* struct LogicalAddresses { primary, addresses }
LogicalAddresses(primary, addresses) ==
    [primary |-> primary, addresses |-> addresses]

\* LogicalAddresses::default(): Unregistered, no addresses.
LogicalAddresses_default == LogicalAddresses("Unregistered", {})

\* LogicalAddresses::with_only_primary
with_only_primary(primary) == LogicalAddresses(primary, {})

\* LogicalAddresses::with_primary_and_addresses: None for Unregistered with
\* other addresses; otherwise the primary, when it is a registered address,
\* joins the addresses.
with_primary_and_addresses(primary, addresses) ==
    IF primary = "Unregistered"
    THEN IF addresses # {} THEN None ELSE Some(with_only_primary(primary))
    ELSE Some(LogicalAddresses(primary, addresses \cup {primary}))

\* Mutant: the encoder marks the primary's own slot as well.
cec_logical_addresses_from_with_primary(addresses) ==
    [primary |-> LogicalAddress_repr(addresses.primary),
     addresses |-> [i \in 0..15 |->
        IF \E a \in addresses.addresses \cup {addresses.primary} :
              LogicalAddress_repr(a) = i
        THEN 1 ELSE 0]]

\* impl From<LogicalAddresses> for cec_logical_addresses: the primary's code,
\* and a mask of 16 slots, all 0 but for the slots of the addresses.
cec_logical_addresses_from(addresses) ==
    [primary |-> LogicalAddress_repr(addresses.primary),
     addresses |-> [i \in 0..15 |->
        IF \E a \in addresses.addresses : LogicalAddress_repr(a) = i
        THEN 1 ELSE 0]]

\* What the filter_map closure returns for slot logical_addr.
mask_slot(logical_addr, addr_mask) ==
    IF addr_mask # 0
    THEN RegisteredLogicalAddress_new(LogicalAddress_try_from(logical_addr).val)
    ELSE None

\* Mutant: the scan of the mask stops at the first free slot.
LogicalAddresses_try_from_until_free(addresses) ==
    LET primary == LogicalAddress_from_repr(addresses.primary)
    IN  IF ~primary.some THEN Err("InvalidPrimaryAddress")
        ELSE IF ~KnownLogicalAddress_new(primary.val).some
        THEN Err("UnknownPrimaryAddress")
        ELSE Ok(LogicalAddresses(KnownLogicalAddress_new(primary.val).val,
                 { mask_slot(i, addresses.addresses[i]).val :
                     i \in { j \in 0..15 :
                               /\ \A k \in 0..j : addresses.addresses[k] # 0
                               /\ mask_slot(j, addresses.addresses[j]).some } }))

\* impl TryFrom<cec_logical_addresses> for LogicalAddresses
LogicalAddresses_try_from(addresses) ==
    LET primary == LogicalAddress_from_repr(addresses.primary)
    IN  IF ~primary.some THEN Err("InvalidPrimaryAddress")
        ELSE IF ~KnownLogicalAddress_new(primary.val).some
        THEN Err("UnknownPrimaryAddress")
        ELSE Ok(LogicalAddresses(KnownLogicalAddress_new(primary.val).val,
                 { mask_slot(i, addresses.addresses[i]).val :
                     i \in { j \in 0..15 :
                               mask_slot(j, addresses.addresses[j]).some } }))

(***************************************************************************)
(* The address set conversions applied to bounded inputs.                  *)
(***************************************************************************)
\* The variables of the dispatcher, which the conversions do not touch.
job_vars == <<now, run_token, ready, spawn_pc, worker_pc, cec, cmd_chan,
              waiters, last_cmd, cur, stats, acc, last_ev, iter, workload>>

\* A cec_logical_addresses as libcec hands it over: any primary code, the
\* ones below and above the table included, and a mask with the slots of
\* occupied set to v.
WireAddresses(primary, occupied, v) ==
    [primary |-> primary,
     addresses |-> [i \in 0..15 |-> IF i \in occupied THEN v ELSE 0]]

NoWireAddresses == WireAddresses(0, {}, 0)

\* ctor: how the value comes about, "default", "with_only_primary",
\* "with_primary_and_addresses", or "wire" for a structure received from
\* libcec; x: the LogicalAddresses built; wire: the cec_logical_addresses;
\* back: what decoding wire returned.
AddrArgs(ctor, primary, others) ==
    [stage |-> "args", ctor |-> ctor, primary |-> primary, others |-> others,
     x |-> None, wire |-> NoWireAddresses, back |-> None]

AddrInit ==
    /\ InitWith({})
    /\ \/ codec = AddrArgs("default", "Unregistered", {})
       \/ \E p \in KnownLogicalAddress :
            codec = AddrArgs("with_only_primary", p, {})
       \/ \E p \in KnownLogicalAddress, S \in SUBSET RegisteredLogicalAddress :
            /\ Cardinality(S) <= MaxSecondary
            /\ codec = AddrArgs("with_primary_and_addresses", p, S)
       \/ \E c \in (0 - 2)..16, T \in SUBSET (0..15), v \in {1, 2} :
            /\ Cardinality(T) <= MaxSecondary
            /\ codec = [AddrArgs("wire", "Unregistered", {}) EXCEPT
                          !.stage = "wire", !.wire = WireAddresses(c, T, v)]

\* The constructor runs.
AddrConstruct ==
    /\ codec.stage = "args"
    /\ codec' = [codec EXCEPT
         !.stage = "built",
         !.x = CASE codec.ctor = "default" -> Some(LogicalAddresses_default)
                 [] codec.ctor = "with_only_primary" ->
                      Some(with_only_primary(codec.primary))
                 [] OTHER ->
                      with_primary_and_addresses(codec.primary, codec.others)]
    /\ UNCHANGED job_vars

\* let ffi: cec_logical_addresses = x.into()
AddrEncode ==
    /\ codec.stage = "built"
    /\ codec.x.some
    /\ codec' = [codec EXCEPT !.stage = "encoded",
                              !.wire = cec_logical_addresses_from(codec.x.val)]
    /\ UNCHANGED job_vars

\* LogicalAddresses::try_from(ffi)
AddrDecode ==
    /\ codec.stage \in {"encoded", "wire"}
    /\ codec' = [codec EXCEPT !.stage = "decoded",
                              !.back = Some(LogicalAddresses_try_from(codec.wire))]
    /\ UNCHANGED job_vars

AddrNext == AddrConstruct \/ AddrEncode \/ AddrDecode

AddrSpec == AddrInit /\ [][AddrNext]_vars

(***************************************************************************)
(* Properties of the address set conversions.                              *)
(***************************************************************************)
\* A LogicalAddresses was built by a constructor, encoded, and the wire
\* structure decoded again.
AddrRoundTrip == codec.stage = "decoded" /\ codec.ctor # "wire"

\* C14: decoding the wire structure that encoding x produced returns a value
\* with the primary and the addresses of x, for every x the constructors
\* build.
C14_AddressSetRoundTrip ==
    AddrRoundTrip =>
        /\ codec.back.val.ok
        /\ codec.back.val.val.primary = codec.x.val.primary
        /\ codec.back.val.val.addresses = codec.x.val.addresses

\* A primary with two other addresses has made the round trip.
C14_Witness ==
    /\ AddrRoundTrip
    /\ codec.ctor = "with_primary_and_addresses"
    /\ codec.x.val.primary = "Playbackdevice1"
    /\ codec.x.val.addresses = {"Playbackdevice1", "Playbackdevice2", "Audiosystem"}
    /\ codec.back.val.ok

\* A LogicalAddresses was built by a constructor and encoded.
AddrEncoded == codec.stage = "encoded"

\* The slots of the mask that are set to 1; every other slot is 0.
SlotsSet(mask) == {i \in 0..15 : mask[i] = 1}

SlotsOf(addresses) == {LogicalAddress_repr(a) : a \in addresses}

\* C15 as stated: the encoded mask has the slot of the primary set to 1, also
\* when the primary is not among the addresses, and has exactly the slots of
\* the addresses and of the primary set.
C15_PrimarySlotAlwaysSet ==
    AddrEncoded =>
        /\ codec.wire.addresses[LogicalAddress_repr(codec.x.val.primary)] = 1
        /\ SlotsSet(codec.wire.addresses) =
              SlotsOf(codec.x.val.addresses \cup {codec.x.val.primary})
        /\ \A i \in 0..15 : codec.wire.addresses[i] \in {0, 1}

\* C15, amended: the encoded mask has exactly the slots of the addresses set
\* to 1 and every other slot 0; the slot of the primary is set exactly when
\* the primary is among the addresses, as it is for a value built by
\* with_primary_and_addresses with a registered primary, and is 0 for a value
\* built by default or with_only_primary, whose mask is all 0.
C15_ExactlySecondarySlots ==
    AddrEncoded =>
        /\ SlotsSet(codec.wire.addresses) = SlotsOf(codec.x.val.addresses)
        /\ \A i \in 0..15 : codec.wire.addresses[i] \in {0, 1}
        /\ codec.wire.primary = LogicalAddress_repr(codec.x.val.primary)
        /\ codec.wire.addresses[LogicalAddress_repr(codec.x.val.primary)] = 1
              <=> codec.x.val.primary \in codec.x.val.addresses
        /\ codec.ctor \in {"default", "with_only_primary"} =>
              SlotsSet(codec.wire.addresses) = {}
        /\ codec.ctor = "with_primary_and_addresses"
              /\ codec.x.val.primary # "Unregistered" =>
              codec.wire.addresses[LogicalAddress_repr(codec.x.val.primary)] = 1

\* with_only_primary(Playbackdevice1) has been encoded: the mask is all 0.
C15_Witness ==
    /\ AddrEncoded
    /\ codec.ctor = "with_only_primary"
    /\ codec.x.val.primary = "Playbackdevice1"
    /\ codec.wire.primary = 4
    /\ SlotsSet(codec.wire.addresses) = {}

\* C16 as stated: every LogicalAddresses the library produces, built or
\* decoded, has no addresses when its primary is Unregistered;
\* with_primary_and_addresses returns None for Unregistered with addresses.
C16_UnregisteredHasNoAddresses ==
    /\ codec.stage \in {"built", "encoded", "decoded"} /\ codec.x.some =>
         (codec.x.val.primary = "Unregistered" => codec.x.val.addresses = {})
    /\ codec.stage = "built" /\ codec.ctor = "with_primary_and_addresses"
         /\ codec.primary = "Unregistered" /\ codec.others # {} =>
         ~codec.x.some
    /\ codec.stage = "decoded" /\ codec.back.val.ok =>
         (codec.back.val.val.primary = "Unregistered" =>
            codec.back.val.val.addresses = {})

(***************************************************************************)
(* cec/src/convert.rs: data packets.  A DataPacket is the sequence of its  *)
(* bytes; data[i] of the source is element i + 1 of the sequence here.     *)
(***************************************************************************)
\* u8
Byte == 0..255

\* `as u8`
as_u8(n) == n % 256

\* What a function that may panic gives: the value it returns, or the panic.
Returned(v) == [panic |-> FALSE, val |-> v]
Panic == [panic |-> TRUE]

\* struct cec_datapacket { data: [u8; 64], size: u8 }
cec_datapacket(data, size) == [data |-> data, size |-> size]

\* Mutant: the buffer is not cleared before the bytes are copied in.
cec_datapacket_from_dirty(datapacket) ==
    cec_datapacket([i \in 1..PacketCapacity |->
                      IF i <= Len(datapacket) THEN datapacket[i] ELSE 255],
                   as_u8(Len(datapacket)))

\* impl From<DataPacket> for cec_datapacket: a zeroed buffer, the packet's
\* bytes copied to its front, and the packet's length.
cec_datapacket_from(datapacket) ==
    cec_datapacket([i \in 1..PacketCapacity |->
                      IF i <= Len(datapacket) THEN datapacket[i] ELSE 0],
                   as_u8(Len(datapacket)))

\* impl From<cec_datapacket> for DataPacket: &datapacket.data[..end] panics
\* when end is beyond the buffer; the slice always fits the ArrayVec.
DataPacket_from(datapacket) ==
    LET end == datapacket.size
    IN  IF end > Len(datapacket.data) THEN Panic
        ELSE Returned(SubSeq(datapacket.data, 1, end))

(***************************************************************************)
(* The data packet conversions applied to bounded inputs.                  *)
(***************************************************************************)
\* n bytes: first, then each the one before plus stride, as u8.
Bytes(n, first, stride) == [i \in 1..n |-> as_u8(first + (i - 1) * stride)]

SampleBytes == {0, 5, 50, 255}

\* from: "domain" for a DataPacket that is encoded and decoded again, "wire"
\* for a cec_datapacket received from libcec; x: the DataPacket; wire: the
\* cec_datapacket; back: what decoding wire gave.
PacketInit ==
    /\ InitWith({})
    /\ \E b \in SampleBytes, d \in 0..MaxStride :
         \/ \E n \in 0..PacketCapacity :
              codec = [stage |-> "args", from |-> "domain", x |-> Bytes(n, b, d),
                       wire |-> cec_datapacket(<<>>, 0), back |-> None]
         \/ \E size \in Byte :
              codec = [stage |-> "wire", from |-> "wire", x |-> <<>>,
                       wire |-> cec_datapacket(Bytes(PacketCapacity, b, d), size),
                       back |-> None]

\* let ffi_packet: cec_datapacket = packet.into()
PacketEncode ==
    /\ codec.stage = "args"
    /\ codec' = [codec EXCEPT !.stage = "encoded",
                              !.wire = cec_datapacket_from(codec.x)]
    /\ UNCHANGED job_vars

\* let packet: DataPacket = ffi_packet.into()
PacketDecode ==
    /\ codec.stage \in {"encoded", "wire"}
    /\ codec' = [codec EXCEPT !.stage = "decoded",
                              !.back = Some(DataPacket_from(codec.wire))]
    /\ UNCHANGED job_vars

PacketNext == PacketEncode \/ PacketDecode

PacketSpec == PacketInit /\ [][PacketNext]_vars

(***************************************************************************)
(* Properties of the data packet conversions.                              *)
(***************************************************************************)
\* C19: encoding a DataPacket of n bytes, 0 <= n <= 64, gives a buffer of 64
\* bytes that starts with the packet's bytes and is 0 from byte n on, with
\* size n; decoding that cec_datapacket gives the packet back.
C19_PacketEncodeZeroFills ==
    codec.from = "domain" /\ codec.stage \in {"encoded", "decoded"} =>
        LET n == Len(codec.x)
        IN  /\ n <= 64
            /\ Len(codec.wire.data) = 64
            /\ \A i \in 1..64 :
                  codec.wire.data[i] = (IF i <= n THEN codec.x[i] ELSE 0)
            /\ codec.wire.size = n
            /\ codec.stage = "decoded" =>
                  codec.back.val = Returned(codec.x)

\* A packet of 63 bytes, none of them 0, has made the round trip: the last
\* byte of the buffer is 0.
C19_Witness ==
    /\ codec.from = "domain"
    /\ codec.stage = "decoded"
    /\ Len(codec.x) = 63
    /\ \A i \in 1..63 : codec.x[i] = 255
    /\ codec.wire.data[64] = 0
    /\ codec.back.val = Returned(codec.x)

\* C20 as stated: decoding a cec_datapacket never fails: whatever the 64
\* bytes and the size byte, it returns the first size bytes of the buffer.
C20_PacketDecodeInfallible ==
    codec.from = "wire" /\ codec.stage = "decoded" =>
        /\ ~codec.back.val.panic
        /\ Len(codec.back.val.val) = codec.wire.size
        /\ \A i \in 1..codec.wire.size :
              codec.back.val.val[i] = codec.wire.data[i]

(***************************************************************************)
(* cec/src/types.rs and cec/src/convert.rs: commands.                      *)
(***************************************************************************)
\* enum Opcode: each variant with the cec_opcode constant that is its code.
\* A code is written as the name of its constant; a code that libcec's enum
\* does not define is written as its number, "666".
OpcodeTable ==
    << <<"ActiveSource", "ACTIVE_SOURCE">>,
      <<"ImageViewOn", "IMAGE_VIEW_ON">>, <<"TextViewOn", "TEXT_VIEW_ON">>,
      <<"InactiveSource", "INACTIVE_SOURCE">>,
      <<"RequestActiveSource", "REQUEST_ACTIVE_SOURCE">>,
      <<"RoutingChange", "ROUTING_CHANGE">>,
      <<"RoutingInformation", "ROUTING_INFORMATION">>,
      <<"SetStreamPath", "SET_STREAM_PATH">>, <<"Standby", "STANDBY">>,
      <<"RecordOff", "RECORD_OFF">>, <<"RecordOn", "RECORD_ON">>,
      <<"RecordStatus", "RECORD_STATUS">>,
      <<"RecordTvScreen", "RECORD_TV_SCREEN">>,
      <<"ClearAnalogueTimer", "CLEAR_ANALOGUE_TIMER">>,
      <<"ClearDigitalTimer", "CLEAR_DIGITAL_TIMER">>,
      <<"ClearExternalTimer", "CLEAR_EXTERNAL_TIMER">>,
      <<"SetAnalogueTimer", "SET_ANALOGUE_TIMER">>,
      <<"SetDigitalTimer", "SET_DIGITAL_TIMER">>,
      <<"SetExternalTimer", "SET_EXTERNAL_TIMER">>,
      <<"SetTimerProgramTitle", "SET_TIMER_PROGRAM_TITLE">>,
      <<"TimerClearedStatus", "TIMER_CLEARED_STATUS">>,
      <<"TimerStatus", "TIMER_STATUS">>, <<"CecVersion", "CEC_VERSION">>,
      <<"GetCecVersion", "GET_CEC_VERSION">>,
      <<"GivePhysicalAddress", "GIVE_PHYSICAL_ADDRESS">>,
      <<"GetMenuLanguage", "GET_MENU_LANGUAGE">>,
      <<"ReportPhysicalAddress", "REPORT_PHYSICAL_ADDRESS">>,
      <<"SetMenuLanguage", "SET_MENU_LANGUAGE">>,
      <<"DeckControl", "DECK_CONTROL">>, <<"DeckStatus", "DECK_STATUS">>,
      <<"GiveDeckStatus", "GIVE_DECK_STATUS">>, <<"Play", "PLAY">>,
      <<"GiveTunerDeviceStatus", "GIVE_TUNER_DEVICE_STATUS">>,
      <<"SelectAnalogueService", "SELECT_ANALOGUE_SERVICE">>,
      <<"SelectDigitalService", "SELECT_DIGITAL_SERVICE">>,
      <<"TunerDeviceStatus", "TUNER_DEVICE_STATUS">>,
      <<"TunerStepDecrement", "TUNER_STEP_DECREMENT">>,
      <<"TunerStepIncrement", "TUNER_STEP_INCREMENT">>,
      <<"DeviceVendorId", "DEVICE_VENDOR_ID">>,
      <<"GiveDeviceVendorId", "GIVE_DEVICE_VENDOR_ID">>,
      <<"VendorCommand", "VENDOR_COMMAND">>,
      <<"VendorCommandWithId", "VENDOR_COMMAND_WITH_ID">>,
      <<"VendorRemoteButtonDown", "VENDOR_REMOTE_BUTTON_DOWN">>,
      <<"VendorRemoteButtonUp", "VENDOR_REMOTE_BUTTON_UP">>,
      <<"SetOsdString", "SET_OSD_STRING">>,
      <<"GiveOsdName", "GIVE_OSD_NAME">>, <<"SetOsdName", "SET_OSD_NAME">>,
      <<"MenuRequest", "MENU_REQUEST">>, <<"MenuStatus", "MENU_STATUS">>,
      <<"UserControlPressed", "USER_CONTROL_PRESSED">>,
      <<"UserControlRelease", "USER_CONTROL_RELEASE">>,
      <<"GiveDevicePowerStatus", "GIVE_DEVICE_POWER_STATUS">>,
      <<"ReportPowerStatus", "REPORT_POWER_STATUS">>,
      <<"FeatureAbort", "FEATURE_ABORT">>, <<"Abort", "ABORT">>,
      <<"GiveAudioStatus", "GIVE_AUDIO_STATUS">>,
      <<"GiveSystemAudioModeStatus", "GIVE_SYSTEM_AUDIO_MODE_STATUS">>,
      <<"ReportAudioStatus", "REPORT_AUDIO_STATUS">>,
      <<"SetSystemAudioMode", "SET_SYSTEM_AUDIO_MODE">>,
      <<"SystemAudioModeRequest", "SYSTEM_AUDIO_MODE_REQUEST">>,
      <<"SystemAudioModeStatus", "SYSTEM_AUDIO_MODE_STATUS">>,
      <<"SetAudioRate", "SET_AUDIO_RATE">>,
      <<"ReportShortAudioDescriptors", "REPORT_SHORT_AUDIO_DESCRIPTORS">>,
      <<"RequestShortAudioDescriptors", "REQUEST_SHORT_AUDIO_DESCRIPTORS">>,
      <<"StartArc", "START_ARC">>,
      <<"ReportArcStarted", "REPORT_ARC_STARTED">>,
      <<"ReportArcEnded", "REPORT_ARC_ENDED">>,
      <<"RequestArcStart", "REQUEST_ARC_START">>,
      <<"RequestArcEnd", "REQUEST_ARC_END">>, <<"EndArc", "END_ARC">>,
      <<"Cdc", "CDC">>, <<"None", "NONE">> >>

Opcode == {OpcodeTable[i][1] : i \in 1..Len(OpcodeTable)}

\* Opcode::repr
Opcode_repr(o) ==
    OpcodeTable[CHOOSE i \in 1..Len(OpcodeTable) : OpcodeTable[i][1] = o][2]

\* Opcode::from_repr: None for a code that no variant has.
Opcode_from_repr(c) ==
    IF \E i \in 1..Len(OpcodeTable) : OpcodeTable[i][2] = c
    THEN Some(OpcodeTable[CHOOSE i \in 1..Len(OpcodeTable) :
                            OpcodeTable[i][2] = c][1])
    ELSE None

\* std::time::Duration: whole seconds and the nanoseconds of the second
\* under way (below 1_000_000_000).
Duration(secs, nanos) == [secs |-> secs, nanos |-> nanos]

Duration_from_secs(secs) == Duration(secs, 0)

Duration_from_millis(millis) ==
    Duration(millis \div 1000, (millis % 1000) * 1000000)

\* duration.as_millis() as i32: secs * 1000 + nanos / 1_000_000, cut to its
\* low 32 bits and read as a signed number.  The sum is computed in two
\* halves of 16 bits, h above lo, so that no intermediate value needs more
\* than 32 bits.
as_millis_as_i32(duration) ==
    LET low == (duration.secs % 2^16) * 1000 + duration.nanos \div 1000000
        h == ((duration.secs \div 2^16) * 1000 + low \div 2^16) % 2^16
        lo == low % 2^16
    IN  IF h >= 2^15 THEN (h - 2^16) * 2^16 + lo ELSE h * 2^16 + lo

\* bool.into(): 1 for true, 0 for false.
bool_into(b) == IF b THEN 1 ELSE 0

\* struct Cmd
Cmd(initiator, destination, ack, eom, opcode, parameters, opcode_set, transmit_timeout) ==
    [initiator |-> initiator, destination |-> destination, ack |-> ack,
     eom |-> eom, opcode |-> opcode, parameters |-> parameters,
     opcode_set |-> opcode_set, transmit_timeout |-> transmit_timeout]

\* Mutant: the timeout is written in seconds.
cec_command_from_secs(command) ==
    [initiator |-> LogicalAddress_repr(command.initiator),
     destination |-> LogicalAddress_repr(command.destination),
     ack |-> bool_into(command.ack),
     eom |-> bool_into(command.eom),
     opcode |-> Opcode_repr(command.opcode),
     parameters |-> cec_datapacket_from(command.parameters),
     opcode_set |-> bool_into(command.opcode_set),
     transmit_timeout |->
        as_millis_as_i32(Duration_from_millis(command.transmit_timeout.secs))]

\* impl From<Cmd> for cec_command
cec_command_from(command) ==
    [initiator |-> LogicalAddress_repr(command.initiator),
     destination |-> LogicalAddress_repr(command.destination),
     ack |-> bool_into(command.ack),
     eom |-> bool_into(command.eom),
     opcode |-> Opcode_repr(command.opcode),
     parameters |-> cec_datapacket_from(command.parameters),
     opcode_set |-> bool_into(command.opcode_set),
     transmit_timeout |-> as_millis_as_i32(command.transmit_timeout)]

\* Mutant: the timeout is converted to u64 without the test for a negative
\* value, and the unwrap panics.
Cmd_decoded_unclamped(command, opcode, initiator, destination) ==
    LET parameters == DataPacket_from(command.parameters)
    IN  IF parameters.panic \/ command.transmit_timeout < 0 THEN Panic
        ELSE Returned(Ok(Cmd(initiator, destination, command.ack # 0,
                             command.eom # 0, opcode, parameters.val,
                             command.opcode_set # 0,
                             Duration_from_millis(command.transmit_timeout))))

\* The rest of Cmd::try_from once the three codes are decoded: the
\* parameters (their conversion may panic), the timeout, the flags.
Cmd_decoded(command, opcode, initiator, destination) ==
    LET parameters == DataPacket_from(command.parameters)
        transmit_timeout ==
            Duration_from_millis(IF command.transmit_timeout < 0 THEN 0
                                 ELSE command.transmit_timeout)
    IN  IF parameters.panic THEN Panic
        ELSE Returned(Ok(Cmd(initiator, destination, command.ack # 0,
                             command.eom # 0, opcode, parameters.val,
                             command.opcode_set # 0, transmit_timeout)))

\* Mutant: the addresses are decoded before the opcode.
Cmd_try_from_addresses_first(command) ==
    LET opcode == Opcode_from_repr(command.opcode)
        initiator == LogicalAddress_from_repr(command.initiator)
        destination == LogicalAddress_from_repr(command.destination)
    IN  IF ~initiator.some THEN Returned(Err("UnknownInitiator"))
        ELSE IF ~destination.some THEN Returned(Err("UnknownDestination"))
        ELSE IF ~opcode.some THEN Returned(Err("UnknownOpcode"))
        ELSE Cmd_decoded(command, opcode.val, initiator.val, destination.val)

\* impl TryFrom<cec_command> for Cmd: each `?` returns its error at once.
Cmd_try_from(command) ==
    LET opcode == Opcode_from_repr(command.opcode)
        initiator == LogicalAddress_from_repr(command.initiator)
        destination == LogicalAddress_from_repr(command.destination)
    IN  IF ~opcode.some THEN Returned(Err("UnknownOpcode"))
        ELSE IF ~initiator.some THEN Returned(Err("UnknownInitiator"))
        ELSE IF ~destination.some THEN Returned(Err("UnknownDestination"))
        ELSE Cmd_decoded(command, opcode.val, initiator.val, destination.val)

(***************************************************************************)
(* The command conversions applied to bounded inputs.                      *)
(***************************************************************************)
\* Timeouts: none, 65 s, 1 ms, 1.5 ms, i32::MAX ms, one millisecond more,
\* and 2^32 ms + 65 s.
Timeouts ==
    { Duration_from_secs(0), Duration_from_secs(65), Duration(0, 1000000),
      Duration(0, 1500000), Duration(2147483, 647000000),
      Duration(2147483, 648000000), Duration(4295032, 296000000) }

\* The command of test_to_ffi, with the fields under test replaced.
TestCmd(initiator, destination, opcode) ==
    Cmd(initiator, destination, FALSE, TRUE, opcode, <<2, 3>>, TRUE,
        Duration_from_secs(65))

\* Codes of the address fields on the wire: those of the 17 variants, and
\* one code on either side of them.
WireAddressCodes == (0 - 2)..16

NoWireCmd == cec_command_from(TestCmd("Unknown", "Unknown", "None"))

\* Timeouts on the wire: i32::MIN, -5, -1, 0, 1, 65000 and i32::MAX.
WireTimeouts ==
    {0 - 2147483647 - 1, 0 - 5, 0 - 1, 0, 1, 65000, 2147483647}

\* from: "domain" for a Cmd that is encoded and decoded again, "wire" for a
\* cec_command received from libcec; x: the Cmd; wire: the cec_command;
\* back: what decoding wire gave.
CmdInit ==
    /\ InitWith({})
    /\ \/ \E i \in LogicalAddress, d \in LogicalAddress, o \in Opcode :
            codec = [stage |-> "args", from |-> "domain", x |-> TestCmd(i, d, o),
                     wire |-> NoWireCmd, back |-> None]
       \/ \E ack \in BOOLEAN, eom \in BOOLEAN, opcode_set \in BOOLEAN,
             n \in {0, 2, PacketCapacity}, stride \in 0..MaxStride,
             t \in Timeouts :
            codec = [stage |-> "args", from |-> "domain",
                     x |-> Cmd("Playbackdevice1", "Playbackdevice2", ack, eom,
                               "ClearAnalogueTimer", Bytes(n, 2, stride),
                               opcode_set, t),
                     wire |-> NoWireCmd, back |-> None]
       \/ \E t \in WireTimeouts :
            codec = [stage |-> "wire", from |-> "wire",
                     x |-> TestCmd("Unknown", "Unknown", "None"),
                     wire |-> [cec_command_from(TestCmd("Playbackdevice1",
                                 "Playbackdevice2", "ClearAnalogueTimer"))
                               EXCEPT !.transmit_timeout = t],
                     back |-> None]
       \/ \E i \in WireAddressCodes, d \in WireAddressCodes,
             o \in {"CLEAR_ANALOGUE_TIMER", "NONE", "666"},
             size \in {2, PacketCapacity + 1}, ack \in {0, 1, 2},
             t \in {0 - 5, 65000} :
            codec = [stage |-> "wire", from |-> "wire",
                     x |-> TestCmd("Unknown", "Unknown", "None"),
                     wire |-> [initiator |-> i, destination |-> d, ack |-> ack,
                               eom |-> 1, opcode |-> o,
                               parameters |->
                                 cec_datapacket(Bytes(PacketCapacity, 2, 1), size),
                               opcode_set |-> 1, transmit_timeout |-> t],
                     back |-> None]

\* let ffi_command: cec_command = command.into()
CmdEncode ==
    /\ codec.stage = "args"
    /\ codec' = [codec EXCEPT !.stage = "encoded",
                              !.wire = cec_command_from(codec.x)]
    /\ UNCHANGED job_vars

\* let command: Result<Cmd> = ffi_command.try_into()
CmdDecode ==
    /\ codec.stage \in {"encoded", "wire"}
    /\ codec' = [codec EXCEPT !.stage = "decoded",
                              !.back = Some(Cmd_try_from(codec.wire))]
    /\ UNCHANGED job_vars

CmdNext == CmdEncode \/ CmdDecode

CmdSpec == CmdInit /\ [][CmdNext]_vars

(***************************************************************************)
(* Properties of the command conversions.                                  *)
(***************************************************************************)
\* A Cmd was encoded and the cec_command decoded again.
CmdRoundTrip == codec.from = "domain" /\ codec.stage = "decoded"

\* C17 as stated: decode(encode(x)) equals x in every field, for every Cmd x,
\* whatever its timeout; 65 s is 65000 on the wire.
C17_CommandRoundTrip ==
    CmdRoundTrip =>
        /\ codec.back.val = Returned(Ok(codec.x))
        /\ codec.x.transmit_timeout = Duration_from_secs(65) =>
              codec.wire.transmit_timeout = 65000

\* The timeout is a whole number of milliseconds, at most i32::MAX of them.
FitsWire(duration) ==
    /\ duration.nanos % 1000000 = 0
    /\ \/ duration.secs < 2147483
       \/ duration.secs = 2147483 /\ duration.nanos <= 647000000

\* C17, amended: decode(encode(x)) returns a Cmd that equals x in every field
\* but the timeout, and in the timeout too exactly when that is a whole
\* number of milliseconds not above i32::MAX ms; 65 s is 65000 on the wire
\* and 65 s again.  A fraction of a millisecond is dropped, and a timeout
\* above i32::MAX ms comes back as another, smaller one.
C17_RoundTripUpToTimeout ==
    CmdRoundTrip =>
        /\ ~codec.back.val.panic
        /\ codec.back.val.val.ok
        /\ [codec.back.val.val.val EXCEPT
              !.transmit_timeout = codec.x.transmit_timeout] = codec.x
        /\ codec.back.val.val.val.transmit_timeout = codec.x.transmit_timeout
              <=> FitsWire(codec.x.transmit_timeout)
        /\ codec.x.transmit_timeout = Duration_from_secs(65) =>
              /\ codec.wire.transmit_timeout = 65000
              /\ codec.back.val.val.val.transmit_timeout = Duration_from_secs(65)
        /\ codec.x.transmit_timeout.secs < 2147483 =>
              codec.back.val.val.val.transmit_timeout =
                Duration(codec.x.transmit_timeout.secs,
                         (codec.x.transmit_timeout.nanos \div 1000000) * 1000000)
        /\ ~FitsWire(codec.x.transmit_timeout)
              /\ codec.x.transmit_timeout.nanos % 1000000 = 0 =>
              codec.back.val.val.val.transmit_timeout.secs
                < codec.x.transmit_timeout.secs

\* A command with 64 bytes of parameters, all three flags set and a timeout
\* of i32::MAX ms has made the round trip.
C17_Witness ==
    /\ CmdRoundTrip
    /\ Len(codec.x.parameters) = 64
    /\ codec.x.ack /\ codec.x.eom /\ codec.x.opcode_set
    /\ codec.x.transmit_timeout = Duration(2147483, 647000000)
    /\ codec.wire.transmit_timeout = 2147483647
    /\ codec.back.val = Returned(Ok(codec.x))

\* A cec_command received from libcec has been decoded.
CmdDecoded == codec.from = "wire" /\ codec.stage = "decoded"

\* C18: a cec_command whose opcode code is outside the table decodes to the
\* error UnknownOpcode, whatever its other fields; with an opcode of the
\* table and an initiator code that is no logical address, to
\* UnknownInitiator; with those two valid and a destination code that is no
\* logical address, to UnknownDestination; never to a panic and never to a
\* Cmd.  A Cmd that is decoded has the variants of the three codes.
C18_DecodeErrorPrecedence ==
    CmdDecoded =>
        LET opcode_ok ==
                \E i \in 1..Len(OpcodeTable) : OpcodeTable[i][2] = codec.wire.opcode
            initiator_ok == codec.wire.initiator \in (0 - 1)..15
            destination_ok == codec.wire.destination \in (0 - 1)..15
            got == codec.back.val
        IN  /\ ~opcode_ok => got = Returned(Err("UnknownOpcode"))
            /\ opcode_ok /\ ~initiator_ok =>
                  got = Returned(Err("UnknownInitiator"))
            /\ opcode_ok /\ initiator_ok /\ ~destination_ok =>
                  got = Returned(Err("UnknownDestination"))
            /\ ~got.panic /\ got.val.ok =>
                  /\ opcode_ok /\ initiator_ok /\ destination_ok
                  /\ Opcode_repr(got.val.val.opcode) = codec.wire.opcode
                  /\ LogicalAddress_repr(got.val.val.initiator) =
                        codec.wire.initiator
                  /\ LogicalAddress_repr(got.val.val.destination) =
                        codec.wire.destination

\* A cec_command with all three codes invalid, and a size byte beyond the
\* buffer besides, has been decoded to UnknownOpcode.
C18_Witness ==
    /\ CmdDecoded
    /\ codec.wire.opcode = "666"
    /\ codec.wire.initiator = 16
    /\ codec.wire.destination = 0 - 2
    /\ codec.wire.parameters.size = 65
    /\ codec.back.val = Returned(Err("UnknownOpcode"))

(***************************************************************************)
(* cec/src/types.rs and cec/src/convert.rs: log messages.                  *)
(***************************************************************************)
\* enum LogLevel: each variant with the cec_log_level constant that is its
\* code; a code the enum does not define is written as its number.
LogLevelTable ==
    << <<"Error", "CEC_LOG_ERROR">>, <<"Warning", "CEC_LOG_WARNING">>,
       <<"Notice", "CEC_LOG_NOTICE">>, <<"Traffic", "CEC_LOG_TRAFFIC">>,
       <<"Debug", "CEC_LOG_DEBUG">>, <<"All", "CEC_LOG_ALL">> >>

\* from_repr of an EnumRepr enum with the given table: None for a code that
\* no variant has.
table_from_repr(table, c) ==
    IF \E i \in 1..Len(table) : table[i][2] = c
    THEN Some(table[CHOOSE i \in 1..Len(table) : table[i][2] = c][1])
    ELSE None

\* repr of an EnumRepr enum with the given table.
table_repr(table, v) ==
    table[CHOOSE i \in 1..Len(table) : table[i][1] = v][2]

\* LogLevel::from_repr
LogLevel_from_repr(c) == table_from_repr(LogLevelTable, c)

\* The bytes 0x80..0xBF that continue a UTF-8 sequence.
Continuation(b) == b \in 128..191

\* The second byte a UTF-8 sequence may have after the lead byte b.
SecondByte(lead, b) ==
    CASE lead = 224 -> b \in 160..191
      [] lead = 237 -> b \in 128..159
      [] lead = 240 -> b \in 144..191
      [] lead = 244 -> b \in 128..143
      [] OTHER -> Continuation(b)

\* The length of the UTF-8 sequence the lead byte b opens, 0 for a byte
\* that opens none.
SequenceLen(b) ==
    CASE b \in 0..127 -> 1
      [] b \in 194..223 -> 2
      [] b \in 224..239 -> 3
      [] b \in 240..244 -> 4
      [] OTHER -> 0

\* CStr::to_str succeeds: the bytes are well-formed UTF-8.
RECURSIVE is_utf8(_)
is_utf8(bytes) ==
    IF bytes = <<>> THEN TRUE
    ELSE LET n == SequenceLen(bytes[1])
         IN  /\ n > 0
             /\ n <= Len(bytes)
             /\ n >= 2 => SecondByte(bytes[1], bytes[2])
             /\ \A i \in 3..n : Continuation(bytes[i])
             /\ is_utf8(SubSeq(bytes, n + 1, Len(bytes)))

\* Mutant: a negative timestamp is clamped to 0, as the command's timeout is.
LogMsg_try_from_clamped(log_message) ==
    IF ~is_utf8(log_message.message) THEN Err("MessageParseError")
    ELSE IF ~LogLevel_from_repr(log_message.level).some
    THEN Err("LogLevelParseError")
    ELSE Ok([message |-> log_message.message,
             level |-> LogLevel_from_repr(log_message.level).val,
             time |-> Duration_from_millis(IF log_message.time < 0 THEN 0
                                           ELSE log_message.time)])

\* impl TryFrom<cec_log_message> for LogMsg: message are the bytes that
\* log_message.message points to, up to the NUL; time: i64 to u64 fails for
\* a negative value.
LogMsg_try_from(log_message) ==
    IF ~is_utf8(log_message.message) THEN Err("MessageParseError")
    ELSE IF ~LogLevel_from_repr(log_message.level).some
    THEN Err("LogLevelParseError")
    ELSE IF log_message.time < 0 THEN Err("TimestampParseError")
    ELSE Ok([message |-> log_message.message,
             level |-> LogLevel_from_repr(log_message.level).val,
             time |-> Duration_from_millis(log_message.time)])

(***************************************************************************)
(* The log message conversion applied to bounded inputs.                   *)
(***************************************************************************)
\* 'A', the two bytes of U+00E9, and a byte no UTF-8 text has.
MsgBytes == {65, 195, 169, 255}

Messages == UNION {[1..n -> MsgBytes] : n \in 0..MaxMsgLen}

LogInit ==
    /\ InitWith({})
    /\ \E m \in Messages,
          l \in {LogLevelTable[i][2] : i \in 1..Len(LogLevelTable)} \cup {"666"},
          t \in {0 - 2147483647, 0 - 1, 0, 1, 65000, 2147483647} :
         codec = [stage |-> "wire", from |-> "wire",
                  wire |-> [message |-> m, level |-> l, time |-> t],
                  back |-> None]

\* let msg: Result<LogMsg> = log_message.try_into()
LogDecode ==
    /\ codec.stage = "wire"
    /\ codec' = [codec EXCEPT !.stage = "decoded",
                              !.back = Some(LogMsg_try_from(codec.wire))]
    /\ UNCHANGED job_vars

LogNext == LogDecode

LogSpec == LogInit /\ [][LogNext]_vars

(***************************************************************************)
(* Properties of the log message conversion.                               *)
(***************************************************************************)
\* The bytes are UTF-8 text, as far as the sampled bytes go: each is 'A' or
\* the pair 0xC3 0xA9.
C21_ValidText(m) ==
    /\ \A i \in 1..Len(m) : m[i] \in {65, 195, 169}
    /\ \A i \in 1..Len(m) : m[i] = 195 => i < Len(m) /\ m[i + 1] = 169
    /\ \A i \in 1..Len(m) : m[i] = 169 => i > 1 /\ m[i - 1] = 195

\* C21: decoding a log record fails exactly when the text is not UTF-8, the
\* level is not defined or the timestamp is negative, with the error of such
\* a field: MessageParseError for the text, else LogLevelParseError for the
\* level, else TimestampParseError; a record with valid text, a defined
\* level and a timestamp t >= 0 decodes to that text, that level and exactly
\* t milliseconds.
C21_LogRecordDecode ==
    codec.stage = "decoded" /\ codec.from = "wire" =>
        LET w == codec.wire
            got == codec.back.val
            text_ok == C21_ValidText(w.message)
            level_ok == \E i \in 1..Len(LogLevelTable) : LogLevelTable[i][2] = w.level
            time_ok == w.time >= 0
        IN  /\ ~text_ok => got = Err("MessageParseError")
            /\ text_ok /\ ~level_ok => got = Err("LogLevelParseError")
            /\ text_ok /\ level_ok /\ ~time_ok => got = Err("TimestampParseError")
            /\ text_ok /\ level_ok /\ time_ok =>
                  /\ got.ok
                  /\ got.val.message = w.message
                  /\ table_repr(LogLevelTable, got.val.level) = w.level
                  /\ got.val.time.secs * 1000 + got.val.time.nanos \div 1000000
                        = w.time
                  /\ got.val.time.nanos % 1000000 = 0

\* A record with the text U+00E9, level Traffic and timestamp 65000 ms has
\* been decoded.
C21_Witness ==
    /\ codec.stage = "decoded"
    /\ codec.wire = [message |-> <<195, 169>>, level |-> "CEC_LOG_TRAFFIC",
                     time |-> 65000]
    /\ codec.back.val =
         Ok([message |-> <<195, 169>>, level |-> "Traffic",
             time |-> Duration_from_secs(65)])

\* C22: a cec_command with timeout t, valid codes and a size within the
\* buffer decodes, whatever t is, to a Cmd whose timeout is zero when t < 0
\* and exactly t milliseconds when t >= 0; t never makes the decode fail or
\* panic.
C22_TimeoutClamp ==
    CmdDecoded =>
        LET w == codec.wire
            got == codec.back.val
            t == w.transmit_timeout
        IN  /\ Opcode_from_repr(w.opcode).some /\ w.initiator \in (0 - 1)..15
               /\ w.destination \in (0 - 1)..15 /\ w.parameters.size <= 64 =>
                 ~got.panic /\ got.val.ok
            /\ ~got.panic /\ got.val.ok =>
                 /\ t < 0 => got.val.val.transmit_timeout = Duration(0, 0)
                 /\ t >= 0 =>
                      /\ got.val.val.transmit_timeout.secs = t \div 1000
                      /\ got.val.val.transmit_timeout.nanos = (t % 1000) * 1000000

\* The timeout i32::MIN has been decoded to a timeout of zero.
C22_Witness ==
    /\ CmdDecoded
    /\ codec.wire.transmit_timeout = 0 - 2147483647 - 1
    /\ ~codec.back.val.panic
    /\ codec.back.val.val.ok
    /\ codec.back.val.val.val.transmit_timeout = Duration_from_secs(0)

(***************************************************************************)
(* cec/src/types.rs and cec/src/convert.rs: the other numeric enums.       *)
(***************************************************************************)
\* enum UserControlCode, with the cec_user_control_code constants.
UserControlCodeTable ==
    << <<"Select", "SELECT">>, <<"Up", "UP">>, <<"Down", "DOWN">>,
      <<"Left", "LEFT">>, <<"Right", "RIGHT">>, <<"RightUp", "RIGHT_UP">>,
      <<"RightDown", "RIGHT_DOWN">>, <<"LeftUp", "LEFT_UP">>,
      <<"LeftDown", "LEFT_DOWN">>, <<"RootMenu", "ROOT_MENU">>,
      <<"SetupMenu", "SETUP_MENU">>, <<"ContentsMenu", "CONTENTS_MENU">>,
      <<"FavoriteMenu", "FAVORITE_MENU">>, <<"Exit", "EXIT">>,
      <<"TopMenu", "TOP_MENU">>, <<"DvdMenu", "DVD_MENU">>,
      <<"NumberEntryMode", "NUMBER_ENTRY_MODE">>, <<"Number11", "NUMBER11">>,
      <<"Number12", "NUMBER12">>, <<"Number0", "NUMBER0">>,
      <<"Number1", "NUMBER1">>, <<"Number2", "NUMBER2">>,
      <<"Number3", "NUMBER3">>, <<"Number4", "NUMBER4">>,
      <<"Number5", "NUMBER5">>, <<"Number6", "NUMBER6">>,
      <<"Number7", "NUMBER7">>, <<"Number8", "NUMBER8">>,
      <<"Number9", "NUMBER9">>, <<"Dot", "DOT">>, <<"Enter", "ENTER">>,
      <<"Clear", "CLEAR">>, <<"NextFavorite", "NEXT_FAVORITE">>,
      <<"ChannelUp", "CHANNEL_UP">>, <<"ChannelDown", "CHANNEL_DOWN">>,
      <<"PreviousChannel", "PREVIOUS_CHANNEL">>,
      <<"SoundSelect", "SOUND_SELECT">>, <<"InputSelect", "INPUT_SELECT">>,
      <<"DisplayInformation", "DISPLAY_INFORMATION">>, <<"Help", "HELP">>,
      <<"PageUp", "PAGE_UP">>, <<"PageDown", "PAGE_DOWN">>,
      <<"Power", "POWER">>, <<"VolumeUp", "VOLUME_UP">>,
      <<"VolumeDown", "VOLUME_DOWN">>, <<"Mute", "MUTE">>, <<"Play", "PLAY">>,
      <<"Stop", "STOP">>, <<"Pause", "PAUSE">>, <<"Record", "RECORD">>,
      <<"Rewind", "REWIND">>, <<"FastForward", "FAST_FORWARD">>,
      <<"Eject", "EJECT">>, <<"Forward", "FORWARD">>,
      <<"Backward", "BACKWARD">>, <<"StopRecord", "STOP_RECORD">>,
      <<"PauseRecord", "PAUSE_RECORD">>, <<"Angle", "ANGLE">>,
      <<"SubPicture", "SUB_PICTURE">>, <<"VideoOnDemand", "VIDEO_ON_DEMAND">>,
      <<"ElectronicProgramGuide", "ELECTRONIC_PROGRAM_GUIDE">>,
      <<"TimerProgramming", "TIMER_PROGRAMMING">>,
      <<"InitialConfiguration", "INITIAL_CONFIGURATION">>,
      <<"SelectBroadcastType", "SELECT_BROADCAST_TYPE">>,
      <<"SelectSoundPresentation", "SELECT_SOUND_PRESENTATION">>,
      <<"PlayFunction", "PLAY_FUNCTION">>,
      <<"PausePlayFunction", "PAUSE_PLAY_FUNCTION">>,
      <<"RecordFunction", "RECORD_FUNCTION">>,
      <<"PauseRecordFunction", "PAUSE_RECORD_FUNCTION">>,
      <<"StopFunction", "STOP_FUNCTION">>,
      <<"MuteFunction", "MUTE_FUNCTION">>,
      <<"RestoreVolumeFunction", "RESTORE_VOLUME_FUNCTION">>,
      <<"TuneFunction", "TUNE_FUNCTION">>,
      <<"SelectMediaFunction", "SELECT_MEDIA_FUNCTION">>,
      <<"SelectAvInputFunction", "SELECT_AV_INPUT_FUNCTION">>,
      <<"SelectAudioInputFunction", "SELECT_AUDIO_INPUT_FUNCTION">>,
      <<"PowerToggleFunction", "POWER_TOGGLE_FUNCTION">>,
      <<"PowerOffFunction", "POWER_OFF_FUNCTION">>,
      <<"PowerOnFunction", "POWER_ON_FUNCTION">>, <<"F1Blue", "F1_BLUE">>,
      <<"F2Red", "F2_RED">>, <<"F3Green", "F3_GREEN">>,
      <<"F4Yellow", "F4_YELLOW">>, <<"F5", "F5">>, <<"Data", "DATA">>,
      <<"AnReturn", "AN_RETURN">>, <<"AnChannelsList", "AN_CHANNELS_LIST">>,
      <<"Unknown", "UNKNOWN">> >>

\* enum Alert, with the libcec_alert constants.
AlertTable ==
    << <<"ServiceDevice", "SERVICE_DEVICE">>,
      <<"ConnectionLost", "CONNECTION_LOST">>,
      <<"PermissionError", "PERMISSION_ERROR">>, <<"PortBusy", "PORT_BUSY">>,
      <<"PhysicalAddressError", "PHYSICAL_ADDRESS_ERROR">>,
      <<"TvPollFailed", "TV_POLL_FAILED">> >>

\* enum MenuState, with the cec_menu_state constants.
MenuStateTable ==
    << <<"Activated", "ACTIVATED">>, <<"Deactivated", "DEACTIVATED">> >>

\* Option::ok_or
ok_or(opt, e) == IF opt.some THEN Ok(opt.val) ELSE Err(e)

\* The decoders of the numeric enums: LogicalAddress::try_from(c_int), and
\* from_repr(..).ok_or(..) as the conversions of convert.rs use it.
enum_decode(kind, code) ==
    CASE kind = "LogicalAddress::try_from" -> LogicalAddress_try_from(code)
      [] kind = "LogicalAddress" ->
           ok_or(LogicalAddress_from_repr(code), "InvalidPrimaryAddress")
      [] kind = "Opcode" -> ok_or(Opcode_from_repr(code), "UnknownOpcode")
      [] kind = "LogLevel" -> ok_or(LogLevel_from_repr(code), "LogLevelParseError")
      [] kind = "UserControlCode" ->
           ok_or(table_from_repr(UserControlCodeTable, code), "UnknownKeycode")
      [] kind = "Alert" -> ok_or(table_from_repr(AlertTable, code), "UnknownAlert")
      [] kind = "MenuState" ->
           ok_or(table_from_repr(MenuStateTable, code), "UnknownMenuState")

\* The code of a variant: v.repr()
enum_repr(kind, v) ==
    CASE kind \in {"LogicalAddress::try_from", "LogicalAddress"} ->
           LogicalAddress_repr(v)
      [] kind = "Opcode" -> Opcode_repr(v)
      [] kind = "LogLevel" -> table_repr(LogLevelTable, v)
      [] kind = "UserControlCode" -> table_repr(UserControlCodeTable, v)
      [] kind = "Alert" -> table_repr(AlertTable, v)
      [] kind = "MenuState" -> table_repr(MenuStateTable, v)

\* The variants of an enum.
Variants(kind) ==
    CASE kind \in {"LogicalAddress::try_from", "LogicalAddress"} -> LogicalAddress
      [] kind = "Opcode" -> Opcode
      [] kind = "LogLevel" -> {LogLevelTable[i][1] : i \in 1..Len(LogLevelTable)}
      [] kind = "UserControlCode" ->
           {UserControlCodeTable[i][1] : i \in 1..Len(UserControlCodeTable)}
      [] kind = "Alert" -> {AlertTable[i][1] : i \in 1..Len(AlertTable)}
      [] kind = "MenuState" -> {MenuStateTable[i][1] : i \in 1..Len(MenuStateTable)}

EnumKinds ==
    {"LogicalAddress::try_from", "LogicalAddress", "Opcode", "LogLevel",
     "UserControlCode", "Alert", "MenuState"}

\* Codes no variant has: for the logical addresses the integers next to
\* -1..15 on either side, for the other enums the 666 of the keypress test.
OutsideCodes(kind) ==
    IF kind \in {"LogicalAddress::try_from", "LogicalAddress"}
    THEN {0 - 1 - k : k \in 1..MaxOutside} \cup {15 + k : k \in 1..MaxOutside}
    ELSE {"666"}

(***************************************************************************)
(* The numeric enum decoders applied to every variant's code and to codes  *)
(* outside the tables.                                                     *)
(***************************************************************************)
\* from: "domain" for a variant v that is encoded and decoded again, "wire"
\* for a code received from libcec.
EnumInit ==
    /\ InitWith({})
    /\ \E kind \in EnumKinds :
         \/ \E v \in Variants(kind) :
              codec = [stage |-> "args", from |-> "domain", kind |-> kind,
                       v |-> v, back |-> None]
         \/ \E c \in OutsideCodes(kind) :
              codec = [stage |-> "wire", from |-> "wire", kind |-> kind,
                       v |-> "-", code |-> c, back |-> None]

\* v.repr()
EnumEncode ==
    /\ codec.stage = "args"
    /\ codec' = [stage |-> "encoded", from |-> codec.from, kind |-> codec.kind,
                 v |-> codec.v, code |-> enum_repr(codec.kind, codec.v),
                 back |-> None]
    /\ UNCHANGED job_vars

\* from_repr(code), try_from(code)
EnumDecode ==
    /\ codec.stage \in {"encoded", "wire"}
    /\ codec' = [codec EXCEPT !.stage = "decoded",
                              !.back = Some(enum_decode(codec.kind, codec.code))]
    /\ UNCHANGED job_vars

EnumNext == EnumEncode \/ EnumDecode

EnumSpec == EnumInit /\ [][EnumNext]_vars

(***************************************************************************)
(* Properties of the numeric enum decoders.                                *)
(***************************************************************************)
\* C23: each numeric enum decode fails, with its own error, for a code
\* outside the defined codes, and returns v for the code of every variant
\* v; the codes of the logical addresses are -1 for Unknown and 0 to 15, 15
\* for Unregistered, and no other integer decodes.
C23_EnumDecode ==
    codec.stage = "decoded" =>
        /\ codec.from = "domain" => codec.back.val = Ok(codec.v)
        /\ codec.from = "wire" => ~codec.back.val.ok
        /\ codec.kind \in {"LogicalAddress::try_from", "LogicalAddress"} =>
              /\ codec.back.val.ok <=> codec.code \in (0 - 1)..15
              /\ codec.code = 0 - 1 <=> codec.back.val = Ok("Unknown")
              /\ codec.code = 15 <=> codec.back.val = Ok("Unregistered")
              /\ codec.code = 0 <=> codec.back.val = Ok("Tv")

\* The code 16, next to Unregistered, has been refused by
\* LogicalAddress::try_from.
C23_Witness ==
    /\ codec.stage = "decoded"
    /\ codec.kind = "LogicalAddress::try_from"
    /\ codec.code = 16
    /\ codec.back.val = Err("InvalidPrimaryAddress")

(***************************************************************************)
(* cec/src/convert.rs: conversions between the address newtypes.           *)
(***************************************************************************)
\* Mutant: the conversion wraps the address without RegisteredLogicalAddress::new.
RegisteredLogicalAddress_try_from_unchecked(address) == Ok(address)

\* impl TryFrom<KnownLogicalAddress> for RegisteredLogicalAddress
RegisteredLogicalAddress_try_from(address) ==
    ok_or(RegisteredLogicalAddress_new(address), "InvalidPrimaryAddress")

\* impl TryFrom<cec_logical_address> for KnownLogicalAddress
KnownLogicalAddress_try_from(addr) ==
    LET from_repr == LogicalAddress_from_repr(addr)
    IN  IF ~from_repr.some THEN Err("InvalidPrimaryAddress")
        ELSE ok_or(KnownLogicalAddress_new(from_repr.val), "UnknownPrimaryAddress")

NewtypeOps ==
    {"KnownLogicalAddress::new", "RegisteredLogicalAddress::new",
     "RegisteredLogicalAddress::try_from", "KnownLogicalAddress::try_from"}

\* The arguments an operation can be given: any LogicalAddress for the
\* constructors, a KnownLogicalAddress for the conversion to a
\* RegisteredLogicalAddress, a wire code for the conversion from libcec.
NewtypeArgs(op) ==
    CASE op \in {"KnownLogicalAddress::new", "RegisteredLogicalAddress::new"} ->
           LogicalAddress
      [] op = "RegisteredLogicalAddress::try_from" -> KnownLogicalAddress
      [] op = "KnownLogicalAddress::try_from" ->
           (0 - 1)..15 \cup OutsideCodes("LogicalAddress")

NewtypeInit ==
    /\ InitWith({})
    /\ \E op \in NewtypeOps : \E x \in NewtypeArgs(op) :
         codec = [stage |-> "args", op |-> op, x |-> x, back |-> None]

NewtypeApply ==
    /\ codec.stage = "args"
    /\ codec' = [codec EXCEPT
         !.stage = "done",
         !.back = CASE codec.op = "KnownLogicalAddress::new" ->
                         KnownLogicalAddress_new(codec.x)
                    [] codec.op = "RegisteredLogicalAddress::new" ->
                         RegisteredLogicalAddress_new(codec.x)
                    [] codec.op = "RegisteredLogicalAddress::try_from" ->
                         RegisteredLogicalAddress_try_from(codec.x)
                    [] codec.op = "KnownLogicalAddress::try_from" ->
                         KnownLogicalAddress_try_from(codec.x)]
    /\ UNCHANGED job_vars

NewtypeNext == NewtypeApply

NewtypeSpec == NewtypeInit /\ [][NewtypeNext]_vars

\* C24: KnownLogicalAddress::new fails exactly for Unknown and succeeds for
\* every other address, Unregistered included; RegisteredLogicalAddress::new
\* fails exactly for Unknown and Unregistered and succeeds for the bus
\* addresses 0 to 14; the conversion of a KnownLogicalAddress to a
\* RegisteredLogicalAddress fails exactly for Unregistered.  A constructor
\* that succeeds wraps the address it was given.
C24_AddressNewtypes ==
    codec.stage = "done" =>
        /\ codec.op = "KnownLogicalAddress::new" =>
              /\ codec.back.some <=> codec.x # "Unknown"
              /\ codec.back.some => codec.back.val = codec.x
        /\ codec.op = "RegisteredLogicalAddress::new" =>
              /\ ~codec.back.some <=> codec.x \in {"Unknown", "Unregistered"}
              /\ codec.back.some <=> LogicalAddress_repr(codec.x) \in 0..14
              /\ codec.back.some => codec.back.val = codec.x
        /\ codec.op = "RegisteredLogicalAddress::try_from" =>
              /\ ~codec.back.ok <=> codec.x = "Unregistered"
              /\ codec.back.ok => codec.back.val = codec.x
              /\ ~codec.back.ok => codec.back = Err("InvalidPrimaryAddress")

\* The conversion of KnownLogicalAddress(Unregistered) has failed.
C24_Witness ==
    /\ codec.stage = "done"
    /\ codec.op = "RegisteredLogicalAddress::try_from"
    /\ codec.x = "Unregistered"
    /\ codec.back = Err("InvalidPrimaryAddress")

(***************************************************************************)
(* cec/src/callback.rs: the entry points libcec calls.                     *)
(***************************************************************************)
\* impl TryFrom<cec_keypress> for Keypress
Keypress_try_from(keypress) ==
    LET keycode == table_from_repr(UserControlCodeTable, keypress.keycode)
    IN  IF ~keycode.some THEN Err("UnknownKeycode")
        ELSE Ok([keycode |-> keycode.val,
                 duration |-> Duration_from_millis(keypress.duration)])

\* impl TryFrom<libcec_configuration> for Cfg: todo!()
Cfg_try_from(value) == Panic

\* The handler fields of struct Callbacks.
Callbacks ==
    {"on_key_press", "on_cmd_received", "on_log_msg", "on_cfg_changed",
     "on_alert", "on_menu_state_changed", "on_source_activated"}

\* The outcome of one native callback: the handler calls it made, and
\* whether it returned to libcec.
Outcome(invoked, outcome) == [invoked |-> invoked, outcome |-> outcome]

\* Mutant: an argument that does not decode is handed to the handler raw.
forward_undecoded(c, field, decoded) ==
    IF ~c.ctx \/ ~c.arg \/ field \notin c.registered
    THEN Outcome(<<>>, "returned")
    ELSE IF decoded.panic THEN Outcome(<<>>, "panicked")
    ELSE IF decoded.val.ok
    THEN Outcome(<< <<field, decoded.val.val>> >>, "returned")
    ELSE Outcome(<< <<field, "raw">> >>, "returned")

\* The `if let` chain of an entry point: callbacks.as_mut(), arg.as_ref(),
\* the handler field, arg.try_into(); then callback(arg).  c.arg is TRUE for
\* the entry points whose argument is passed by value.
forward(c, field, decoded) ==
    IF ~c.ctx \/ ~c.arg \/ field \notin c.registered
    THEN Outcome(<<>>, "returned")
    ELSE IF decoded.panic THEN Outcome(<<>>, "panicked")
    ELSE IF decoded.val.ok
    THEN Outcome(<< <<field, decoded.val.val>> >>, "returned")
    ELSE Outcome(<<>>, "returned")

\* trace!("..: {:?}", *arg): with trace logging enabled the argument pointer
\* is read before it is tested.  Reading through a null pointer is undefined:
\* the process is killed, or the read is never made and the call goes on.
deref_in_trace(c, then) ==
    IF c.trace /\ ~c.arg THEN {Outcome(<<>>, "crashed"), then} ELSE {then}

ByPointer == {"on_key_press", "on_cmd_received", "on_log_msg", "on_config_changed"}

CallbackEntries ==
    ByPointer \cup {"on_alert", "on_menu_changed", "on_source_activated"}

ValidWireCmd ==
    cec_command_from(TestCmd("Playbackdevice1", "Playbackdevice2",
                             "ClearAnalogueTimer"))

\* The raw arguments libcec passes: some decode, some do not.
CallbackArgs(entry) ==
    CASE entry = "on_key_press" ->
           {[keycode |-> k, duration |-> 500] :
              k \in {UserControlCodeTable[1][2], "666"}}
      [] entry = "on_cmd_received" ->
           {ValidWireCmd, [ValidWireCmd EXCEPT !.opcode = "666"],
            [ValidWireCmd EXCEPT !.parameters =
               cec_datapacket(Bytes(PacketCapacity, 2, 1), PacketCapacity + 1)]}
      [] entry = "on_log_msg" ->
           {[message |-> m, level |-> l, time |-> 1] :
              m \in {<<65>>, <<255>>}, l \in {LogLevelTable[1][2], "666"}}
      [] entry = "on_config_changed" -> {"libcec_configuration"}
      [] entry = "on_alert" -> {AlertTable[1][2], "666"}
      [] entry = "on_menu_changed" -> {MenuStateTable[1][2], "666"}
      [] entry = "on_source_activated" ->
           {[logical_address |-> a, is_activated |-> b] :
              a \in {0 - 1, 0, 15, 16}, b \in {0, 1, 2}}

\* The handler field an entry point forwards to.
HandlerOf(entry) ==
    CASE entry = "on_config_changed" -> "on_cfg_changed"
      [] entry = "on_menu_changed" -> "on_menu_state_changed"
      [] OTHER -> entry

\* One native callback: the context pointer is null or points to the
\* Callbacks of the connection, the argument pointer is null or not, the
\* handler of the event, the other handlers, all or none are registered,
\* trace logging is on or off.
CallbackInit ==
    /\ InitWith({})
    /\ \E entry \in CallbackEntries, ctx \in BOOLEAN, arg \in BOOLEAN,
          own \in BOOLEAN, others \in BOOLEAN, trace \in BOOLEAN :
         \E raw \in CallbackArgs(entry), field \in {HandlerOf(entry)} :
           /\ entry \notin ByPointer => arg
           /\ codec = [stage |-> "call", entry |-> entry, ctx |-> ctx,
                       arg |-> arg, raw |-> raw, trace |-> trace,
                       registered |->
                         (IF own THEN {field} ELSE {}) \cup
                         (IF others THEN Callbacks \ {field} ELSE {}),
                       invoked |-> <<>>, outcome |-> "pending", ret |-> "-"]

\* The entry point has run.
called(r, ret) ==
    codec' = [codec EXCEPT !.stage = "done", !.invoked = r.invoked,
                           !.outcome = r.outcome,
                           !.ret = IF r.outcome = "returned" THEN ret ELSE "-"]

on_key_press ==
    /\ codec.stage = "call" /\ codec.entry = "on_key_press"
    /\ called(forward(codec, "on_key_press",
                      Returned(Keypress_try_from(codec.raw))), "()")
    /\ UNCHANGED job_vars

on_cmd_received ==
    /\ codec.stage = "call" /\ codec.entry = "on_cmd_received"
    /\ called(forward(codec, "on_cmd_received", Cmd_try_from(codec.raw)), "()")
    /\ UNCHANGED job_vars

on_log_msg ==
    /\ codec.stage = "call" /\ codec.entry = "on_log_msg"
    /\ \E r \in deref_in_trace(codec,
                forward(codec, "on_log_msg",
                        Returned(LogMsg_try_from(codec.raw)))) :
         called(r, "()")
    /\ UNCHANGED job_vars

on_config_changed ==
    /\ codec.stage = "call" /\ codec.entry = "on_config_changed"
    /\ \E r \in deref_in_trace(codec,
                forward(codec, "on_cfg_changed", Cfg_try_from(codec.raw))) :
         called(r, "()")
    /\ UNCHANGED job_vars

on_alert ==
    /\ codec.stage = "call" /\ codec.entry = "on_alert"
    /\ called(forward(codec, "on_alert",
                      Returned(enum_decode("Alert", codec.raw))), "()")
    /\ UNCHANGED job_vars

on_menu_changed ==
    /\ codec.stage = "call" /\ codec.entry = "on_menu_changed"
    /\ called(forward(codec, "on_menu_state_changed",
                      Returned(enum_decode("MenuState", codec.raw))), "0")
    /\ UNCHANGED job_vars

\* callback(logical_address, is_activated != 0)
on_source_activated ==
    /\ codec.stage = "call" /\ codec.entry = "on_source_activated"
    /\ LET logical_address == KnownLogicalAddress_try_from(codec.raw.logical_address)
       IN  called(forward(codec, "on_source_activated",
                          Returned(IF logical_address.ok
                                   THEN Ok(<<logical_address.val,
                                             codec.raw.is_activated # 0>>)
                                   ELSE logical_address)), "()")
    /\ UNCHANGED job_vars

CallbackNext ==
    \/ on_key_press
    \/ on_cmd_received
    \/ on_log_msg
    \/ on_config_changed
    \/ on_alert
    \/ on_menu_changed
    \/ on_source_activated

CallbackSpec == CallbackInit /\ [][CallbackNext]_vars

(***************************************************************************)
(* Properties of the callback entry points.                                *)
(***************************************************************************)
\* The raw argument of the call decodes: its conversion returns Ok.
Decodes ==
    CASE codec.entry = "on_key_press" -> Keypress_try_from(codec.raw).ok
      [] codec.entry = "on_cmd_received" ->
           /\ ~Cmd_try_from(codec.raw).panic
           /\ Cmd_try_from(codec.raw).val.ok
      [] codec.entry = "on_log_msg" -> LogMsg_try_from(codec.raw).ok
      [] codec.entry = "on_config_changed" -> FALSE
      [] codec.entry = "on_alert" -> enum_decode("Alert", codec.raw).ok
      [] codec.entry = "on_menu_changed" -> enum_decode("MenuState", codec.raw).ok
      [] codec.entry = "on_source_activated" ->
           KnownLogicalAddress_try_from(codec.raw.logical_address).ok

C26_CallbacksNeverPanic ==
    codec.stage = "done" => codec.outcome = "returned"

(***************************************************************************)
(* cec/src/convert.rs: the strings of the configuration.                   *)
(***************************************************************************)
\* The capacity of cec's OSD name buffer, in libcec's cectypes.h.
LIBCEC_OSD_NAME_SIZE == 15

\* first_n::<N>(string): the first N bytes of the string, then zeros.  A
\* c_char is written as the byte it holds.
first_n(N, string) ==
    [i \in 1..N |-> IF i <= Len(string) THEN string[i] ELSE 0]

\* Mutant: the language is copied with the capacity of the name.
libcec_configuration_from_name_size(config) ==
    [strDeviceName |-> first_n(LIBCEC_OSD_NAME_SIZE, config.name),
     strDeviceLanguage |->
       IF config.language.some
       THEN first_n(LIBCEC_OSD_NAME_SIZE, config.language.val)
       ELSE "libcec_clear_configuration"]

\* impl From<&Cfg> for libcec_configuration: the two string fields.  A
\* language that is not set leaves what libcec_clear_configuration wrote.
libcec_configuration_from(config) ==
    [strDeviceName |-> first_n(LIBCEC_OSD_NAME_SIZE, config.name),
     strDeviceLanguage |->
       IF config.language.some THEN first_n(3, config.language.val)
       ELSE "libcec_clear_configuration"]

\* Strings of every length up to MaxOver bytes more than the name buffer
\* holds, of ASCII letters or of bytes above 127.
Strings ==
    {Bytes(n, first, 1) : n \in 0..(LIBCEC_OSD_NAME_SIZE + MaxOver),
                          first \in {97, 200}}

StringInit ==
    /\ InitWith({})
    /\ \/ \E N \in {0, 3, 7}, string \in Strings :
            codec = [stage |-> "args", op |-> "first_n", N |-> N,
                     x |-> string, back |-> None]
       \/ \E name \in Strings,
             language \in {None} \cup {Some(Bytes(n, 101, 1)) : n \in 0..4} :
            codec = [stage |-> "args", op |-> "cfg", N |-> 0,
                     x |-> [name |-> name, language |-> language],
                     back |-> None]

\* first_n::<N>(string), as the tests call it
StringFirstN ==
    /\ codec.stage = "args" /\ codec.op = "first_n"
    /\ codec' = [codec EXCEPT !.stage = "done",
                              !.back = Some(first_n(codec.N, codec.x))]
    /\ UNCHANGED job_vars

\* let cfg: libcec_configuration = (&config).into()
StringCfgEncode ==
    /\ codec.stage = "args" /\ codec.op = "cfg"
    /\ codec' = [codec EXCEPT !.stage = "done",
                              !.back = Some(libcec_configuration_from(codec.x))]
    /\ UNCHANGED job_vars

StringNext == StringFirstN \/ StringCfgEncode

StringSpec == StringInit /\ [][StringNext]_vars

\* buffer has exactly N entries: the first min(Len(s), N) bytes of s, then
\* zeros.
C27_Copied(s, N, buffer) ==
    /\ Len(buffer) = N
    /\ \A i \in 1..N : buffer[i] = IF i <= Len(s) THEN s[i] ELSE 0

\* C27: copying a string into a buffer of capacity N gives exactly N
\* entries, the leading bytes of the string followed by zeros; a longer
\* string is cut without an error and N = 0 gives the empty buffer.  The
\* device name is copied with capacity LIBCEC_OSD_NAME_SIZE and the
\* language with capacity 3.
C27_FixedCapacityCopy ==
    codec.stage = "done" =>
        /\ codec.op = "first_n" =>
              /\ C27_Copied(codec.x, codec.N, codec.back.val)
              /\ codec.N = 0 => codec.back.val = <<>>
        /\ codec.op = "cfg" =>
              /\ C27_Copied(codec.x.name, LIBCEC_OSD_NAME_SIZE,
                            codec.back.val.strDeviceName)
              /\ codec.x.language.some =>
                    C27_Copied(codec.x.language.val, 3,
                               codec.back.val.strDeviceLanguage)

\* A name of 16 bytes and a language of 4 bytes have been cut to 15 and 3.
C27_Witness ==
    /\ codec.stage = "done"
    /\ codec.op = "cfg"
    /\ Len(codec.x.name) = LIBCEC_OSD_NAME_SIZE + 1
    /\ codec.x.language.some
    /\ Len(codec.x.language.val) = 4
    /\ Len(codec.back.val.strDeviceName) = LIBCEC_OSD_NAME_SIZE
    /\ codec.back.val.strDeviceLanguage = <<101, 102, 103>>

(***************************************************************************)
(* Press and Release in the stream of executed commands.                   *)
(***************************************************************************)
\* C28: debounce never suppresses the Release that ends an executed Press:
\* when Press(b) has been executed, no Release(b) has been executed since,
\* and the caller then submits Release(b), that Release is executed.  A
\* command is executed in the handle_cmd call whose debounce_cmd accepted
\* it; the last executed Release(b) came before the Press when it was
\* submitted before it (the channel is FIFO).
C28_ReleaseEndsPress ==
    \A b \in Button :
        ~ /\ last_ev.kind = "suppressed"
          /\ last_ev.item.cmd = Release(b)
          /\ acc[Press(b)].time # NoTime
          /\ last_ev.item.at > acc[Press(b)].time
          /\ last_ev.prev.at < acc[Press(b)].at

\* C28, amended: a Release is debounced by the Releases of its button
\* alone.  Release(b) is suppressed exactly when a Release(b) was executed
\* at most 200 ms before it is dequeued, whether or not a Press(b) was
\* executed in between; every other Release(b) is executed.
C28_ReleaseDebouncedByReleases ==
    (last_ev.kind \in {"accepted", "suppressed"} /\ last_ev.item.cmd.kind = "Release")
        => (last_ev.kind = "suppressed" <=>
              /\ last_ev.prev.time # NoTime
              /\ last_ev.time - last_ev.prev.time <= PressWindow)

\* Release(VolumeUp) was executed at 100 ms, Press(VolumeUp), submitted
\* after it, was executed too, and the Release(VolumeUp) submitted at 250 ms
\* has been suppressed.
C28_Witness ==
    /\ last_ev.kind = "suppressed"
    /\ last_ev.item.cmd = Release("VolumeUp")
    /\ last_ev.item.at = 250
    /\ last_ev.prev.time = 100
    /\ acc[Press("VolumeUp")].time = 100
    /\ acc[Press("VolumeUp")].at > last_ev.prev.at

(***************************************************************************)
(* Decoding the occupancy mask of a wire address set.                      *)
(***************************************************************************)
\* A cec_logical_addresses has been decoded into a LogicalAddresses.
AddrDecodedOk == codec.stage = "decoded" /\ codec.back.val.ok

\* The slots of the mask that are not 0.
Occupied(mask) == {i \in 0..15 : mask[i] # 0}

\* C29: the addresses of a decoded wire address set are exactly those whose
\* slot in the 16-slot mask is not 0: every occupied slot, from 0 to 15, is
\* decoded and inserted, and none is skipped.
C29_EveryOccupiedSlotDecoded ==
    AddrDecodedOk =>
        SlotsOf(codec.back.val.val.addresses) = Occupied(codec.wire.addresses)

\* C29, amended: the addresses of a decoded wire address set are exactly
\* those whose slot, from 0 to 14, is not 0; an occupied slot 15, the slot
\* of Unregistered, is skipped without an error; the mask never makes the
\* decoding fail.
C29_OccupiedSlotsBelow15Decoded ==
    codec.stage = "decoded" =>
        /\ codec.back.val.ok <=> codec.wire.primary \in 0..15
        /\ codec.back.val.ok =>
              /\ SlotsOf(codec.back.val.val.addresses) =
                    Occupied(codec.wire.addresses) \ {15}
              /\ codec.back.val.val.addresses \subseteq RegisteredLogicalAddress

\* A mask with the slots 4 and 15 occupied has been decoded: the addresses
\* are Playbackdevice1 alone.
C29_Witness ==
    /\ AddrDecodedOk
    /\ codec.ctor = "wire"
    /\ Occupied(codec.wire.addresses) = {4, 15}
    /\ codec.back.val.val.addresses = {"Playbackdevice1"}

(***************************************************************************)
(* The start handshake.                                                    *)
(***************************************************************************)
\* C30: spawn never waits forever on the ready signal.  Provided that
\* opening the connection returns or panics, the worker sends a status or
\* drops the sender, and the caller's wait resolves, to the handle or to an
\* error: the status sent is the result of opening, the sender is dropped
\* without a status only by a thread that panicked.
C30_SpawnResolves ==
    /\ (spawn_pc = "await") ~> (spawn_pc \in {"handle", "err_start", "err_read"})
    /\ [](worker_pc \notin {"open", "send_ready"} => ready # "empty")
    /\ [](ready = "dropped" => worker_pc = "panicked")
    /\ [](ready \in {"Ok", "Err"} => ready = cec /\ stats.ready_sends = 1)
    /\ [](spawn_pc = "handle" => ready = "Ok")
    /\ [](spawn_pc = "err_start" => ready = "Err")
    /\ [](spawn_pc = "err_read" => ready = "dropped")

\* Opening the connection panicked, the sender was dropped, and the
\* caller's wait has resolved to "failed to read job status".
C30_Witness ==
    /\ worker_pc = "panicked"
    /\ ready = "dropped"
    /\ spawn_pc = "err_read"

====
